---- MODULE Spec2Model ----
(***************************************************************************)
(* A model of the file-management engine of scriptboard                    *)
(* (src/backend/fileman/core.py, src/backend/fileman/router.py).           *)
(*                                                                         *)
(* A file name is a sequence of tokens (short strings standing for runs    *)
(* of characters; "." is always a token of its own), a path is a sequence  *)
(* of names from the filesystem root, and the filesystem is a set of       *)
(* directories plus a map from file paths to [c: content, m: mtime].       *)
(* Every path of the model is absolute, has no ".." and no symlink, so     *)
(* Path.expanduser().resolve() leaves it as it is.                         *)
(***************************************************************************)
EXTENDS Integers, Sequences, FiniteSets, TLC

VARIABLES
    fs,           \* the filesystem
    history,      \* _ACTION_HISTORY
    hasTrash,     \* HAS_SEND2TRASH
    scanRev,      \* the directory listing order of this filesystem
    prevFs,       \* fs before the last call
    prevHistory,  \* history before the last call
    last,         \* the last call and what it returned
    prevCmd,      \* the call before the last one, in short
    nOps,         \* the number of calls so far
    unreadable,   \* the files that cannot be opened for reading: file_hash raises on them
    pool,         \* one call of parallel_hash_files: its executor, futures and main thread
    stream,       \* one event generator being consumed: its position, locals and events
    gone,         \* the files another process removes as soon as a scan has yielded them
    logger        \* the KeyLogger object

vars == <<fs, history, hasTrash, scanRev, prevFs, prevHistory, last, prevCmd, nOps,
          unreadable, pool, stream, gone, logger>>

(***************************************************************************)
(* Bounds of the model                                                     *)
(***************************************************************************)
MaxOps == 3
\* the largest collision index, day of the epoch and number width the listing order ranks
RankLimit == 8
RankDays == 40
RankWidth == 4

(***************************************************************************)
(* Program constants                                                       *)
(***************************************************************************)
SecondsPerDay == 86400
BytesPerMB == 1024 * 1024
DaysInJanuary == 31

None == <<>>

\* Body applied to the value of e, which is computed once
Bind(e, Body(_)) == CHOOSE y \in {Body(x) : x \in {e}} : TRUE

(***************************************************************************)
(* Names and paths (pathlib)                                               *)
(***************************************************************************)
Dot == "."

Parent(p) == SubSeq(p, 1, Len(p) - 1)
NameOf(p) == p[Len(p)]
Child(d, n) == Append(d, n)

DotPositions(name) == {i \in 1..Len(name) : name[i] = Dot}
LastDot(name) == IF DotPositions(name) = {} THEN 0
                 ELSE CHOOSE i \in DotPositions(name) : \A j \in DotPositions(name) : j <= i

\* PurePath.suffix: the last ".ext" of the name, unless the dot is the first or last character
SuffixOf(name) ==
    LET i == LastDot(name)
    IN  IF 1 < i /\ i < Len(name) THEN SubSeq(name, i, Len(name)) ELSE <<>>

\* PurePath.stem: the name without its suffix
StemOf(name) ==
    LET i == LastDot(name)
    IN  IF 1 < i /\ i < Len(name) THEN SubSeq(name, 1, i - 1) ELSE name

(***************************************************************************)
(* The filesystem                                                          *)
(***************************************************************************)
IsFile(f, p) == p \in DOMAIN f.files
IsDir(f, p) == p \in f.dirs
Exists(f, p) == IsFile(f, p) \/ IsDir(f, p)

AllPaths(f) == f.dirs \cup DOMAIN f.files
ChildNames(f, d) == {NameOf(p) : p \in {q \in AllPaths(f) : Len(q) = Len(d) + 1 /\ Parent(q) = d}}

Prefixes(p) == {SubSeq(p, 1, k) : k \in 1..Len(p)}

\* os.rename(src, dst) of a file onto a path that does not exist
FsMoveFile(f, src, dst) ==
    [f EXCEPT !.files = [p \in (DOMAIN f.files \ {src}) \cup {dst} |->
                            IF p = dst THEN f.files[src] ELSE f.files[p]]]

\* Path.unlink() / send2trash(): the file is no longer under its path
FsRemoveFile(f, p) ==
    [f EXCEPT !.files = [q \in DOMAIN f.files \ {p} |-> f.files[q]]]

\* Path.mkdir(parents=True, exist_ok=True)
FsMkdirs(f, p) == [f EXCEPT !.dirs = f.dirs \cup Prefixes(p)]

\* Path.rmdir()
FsRmdir(f, p) == [f EXCEPT !.dirs = f.dirs \ {p}]

\* mkdir(parents=True) raises when a component of the path is a regular file
MkdirFails(f, p) == \E q \in Prefixes(p) : IsFile(f, q)

(***************************************************************************)
(* Directory listing order: os.scandir returns the entries of a directory  *)
(* in an order the filesystem chooses, the same on every listing of an     *)
(* unchanged directory.  The model orders names token by token by TokRank, *)
(* ascending or descending as scanRev says.                                *)
(***************************************************************************)
Tokens == <<".", "_", " ", "#", "a", "arch", "b", "e", "noext", "notes", "out", "p",
            "report", "REPORT", "tmp", "txt", "TXT", "w", "x", "X", "y", "Y">>

\* f" ({i})" of unique_path
ParenTok(i) == " (" \o ToString(i) \o ")"

\* what sanitize_filename makes of one token: every character outside [A-Za-z0-9._ -] becomes "_"
SanTok(t) ==
    IF t = "#" THEN "_"
    ELSE IF \E i \in 1..RankLimit : t = ParenTok(i)
    THEN " _" \o ToString(CHOOSE i \in 1..RankLimit : t = ParenTok(i)) \o "_"
    ELSE t

RECURSIVE ZeroPad(_, _)
ZeroPad(s, width) == IF Len(s) >= width THEN s ELSE ZeroPad("0" \o s, width)

\* time.strftime("%Y-%m-%d" / "%Y-%m", time.gmtime(mtime)) for the first two months of the epoch
DayOf(mtime) == mtime \div SecondsPerDay
DateTok(mtime) ==
    IF DayOf(mtime) < DaysInJanuary
    THEN "1970-01-" \o ZeroPad(ToString(DayOf(mtime) + 1), 2)
    ELSE "1970-02-" \o ZeroPad(ToString(DayOf(mtime) - DaysInJanuary + 1), 2)
MonthTok(mtime) == IF DayOf(mtime) < DaysInJanuary THEN "1970-01" ELSE "1970-02"

\* f"{i:0{width}d}"
NumTok(i, width) == ZeroPad(ToString(i), width)

\* the rank of a token in the listing order; tokens the program builds rank after the literal ones
TokRank(t) ==
    IF \E i \in 1..Len(Tokens) : Tokens[i] = t
    THEN CHOOSE i \in 1..Len(Tokens) : Tokens[i] = t
    ELSE IF \E i \in 1..RankLimit : t = ParenTok(i)
    THEN 100 + (CHOOSE i \in 1..RankLimit : t = ParenTok(i))
    ELSE IF \E d \in 0..RankDays : t = DateTok(d * SecondsPerDay)
    THEN 200 + (CHOOSE d \in 0..RankDays : t = DateTok(d * SecondsPerDay))
    ELSE IF \E d \in {0, DaysInJanuary} : t = MonthTok(d * SecondsPerDay)
    THEN 300 + (CHOOSE d \in {0, DaysInJanuary} : t = MonthTok(d * SecondsPerDay))
    ELSE IF \E i \in 0..RankLimit : \E w \in 1..RankWidth : t = NumTok(i, w)
    THEN LET iw == CHOOSE iw \in (0..RankLimit) \X (1..RankWidth) : t = NumTok(iw[1], iw[2])
         IN  400 + RankWidth * iw[1] + iw[2]
    ELSE IF \E i \in 1..RankLimit : t = SanTok(ParenTok(i))
    THEN 600 + (CHOOSE i \in 1..RankLimit : t = SanTok(ParenTok(i)))
    ELSE 999

RECURSIVE NameLess(_, _)
NameLess(n1, n2) ==
    IF n1 = <<>> THEN n2 # <<>>
    ELSE IF n2 = <<>> THEN FALSE
    ELSE IF Head(n1) = Head(n2) THEN NameLess(Tail(n1), Tail(n2))
    ELSE TokRank(Head(n1)) < TokRank(Head(n2))

Before(rev, n1, n2) == IF rev THEN NameLess(n2, n1) ELSE NameLess(n1, n2)

RECURSIVE SortNames(_, _)
SortNames(S, rev) ==
    IF S = {} THEN <<>>
    ELSE LET n == CHOOSE x \in S : \A y \in S \ {x} : Before(rev, x, y)
         IN  <<n>> \o SortNames(S \ {n}, rev)

\* list(os.scandir(d)): the names in d at the moment of the call
ScanDir(f, d, rev) == SortNames(ChildNames(f, d), rev)

(***************************************************************************)
(* PathResolver                                                            *)
(***************************************************************************)
\* a probe that takes the candidate without looking whether it exists
ProbeOnce(f, parent, stem, suffix, i) == Child(parent, stem \o <<ParenTok(i)>> \o suffix)

RECURSIVE ProbeFrom(_, _, _, _, _)
ProbeFrom(f, parent, stem, suffix, i) ==
    LET candidate == Child(parent, stem \o <<ParenTok(i)>> \o suffix)
    IN  IF ~Exists(f, candidate) THEN candidate
        ELSE ProbeFrom(f, parent, stem, suffix, i + 1)

unique_path(f, dst) ==
    IF ~Exists(f, dst) THEN dst
    ELSE ProbeFrom(f, Parent(dst), StemOf(NameOf(dst)), SuffixOf(NameOf(dst)), 1)

\* an ensure_dir that creates the directory in a dry run too
EnsureDirAlways(f, p, apply) ==
    IF Exists(f, p) \/ MkdirFails(f, p) THEN f ELSE FsMkdirs(f, p)

\* the filesystem after ensure_dir(p, apply)
ensure_dir(f, p, apply) ==
    IF Exists(f, p) THEN f
    ELSE IF apply /\ ~MkdirFails(f, p) THEN FsMkdirs(f, p)
    ELSE f

ensure_dir_raises(f, p, apply) == ~Exists(f, p) /\ apply /\ MkdirFails(f, p)

(***************************************************************************)
(* Action                                                                  *)
(***************************************************************************)
\* Action(op, src, dst, meta); dst is None or a path, meta is empty or <<key, value>>
Action(op, src, dst, meta) == [op |-> op, src |-> src, dst |-> dst, meta |-> meta]
NoMeta == <<>>

(***************************************************************************)
(* OperationExecutor: each returns [fs, act, err]; err is TRUE when the    *)
(* call raises (the Action is then not returned).                          *)
(***************************************************************************)
\* shutil.move, Path.rename, Path.unlink and send2trash raise PermissionError on a file
\* that the operating system does not let the process remove from its directory
Locked(f, p) == p \in f.locked

move_file(f, src, dst_dir, apply) ==
    LET f1  == ensure_dir(f, dst_dir, apply)
        dst == unique_path(f1, Child(dst_dir, NameOf(src)))
        bad == apply /\ (\/ ensure_dir_raises(f, dst_dir, apply)
                         \/ ~IsFile(f1, src)
                         \/ ~IsDir(f1, dst_dir)
                         \/ Locked(f, src))
    IN  [fs  |-> IF apply /\ ~bad THEN FsMoveFile(f1, src, dst) ELSE f1,
         act |-> Action("move", src, dst, NoMeta),
         err |-> bad]

rename_file(f, src, new_name, apply) ==
    LET dst == unique_path(f, Child(Parent(src), new_name))
        bad == apply /\ (~IsFile(f, src) \/ Locked(f, src))
    IN  [fs  |-> IF apply /\ ~bad THEN FsMoveFile(f, src, dst) ELSE f,
         act |-> Action("rename", src, dst, NoMeta),
         err |-> bad]

\* a safe_delete that trusts use_trash without asking whether send2trash is there
SafeDeleteBlind(f, path, use_trash, apply, has_send2trash) ==
    IF use_trash
    THEN [fs  |-> IF apply /\ has_send2trash /\ IsFile(f, path) THEN FsRemoveFile(f, path) ELSE f,
          act |-> Action("trash", path, None, NoMeta),
          did |-> IF apply THEN "send2trash" ELSE "nothing",
          err |-> apply /\ (~has_send2trash \/ ~IsFile(f, path))]
    ELSE [fs  |-> IF apply /\ IsFile(f, path) THEN FsRemoveFile(f, path) ELSE f,
          act |-> Action("delete", path, None, NoMeta),
          did |-> IF apply THEN "unlink" ELSE "nothing",
          err |-> apply /\ ~IsFile(f, path)]

\* did is the call that was made on the file: send2trash, unlink or nothing
safe_delete(f, path, use_trash, apply, has_send2trash) ==
    LET bad == apply /\ (~IsFile(f, path) \/ Locked(f, path))
    IN  IF use_trash /\ has_send2trash
        THEN [fs  |-> IF apply /\ ~bad THEN FsRemoveFile(f, path) ELSE f,
              act |-> Action("trash", path, None, NoMeta),
              did |-> IF apply THEN "send2trash" ELSE "nothing",
              err |-> bad]
        ELSE [fs  |-> IF apply /\ ~bad THEN FsRemoveFile(f, path) ELSE f,
              act |-> Action("delete", path, None, NoMeta),
              did |-> IF apply THEN "unlink" ELSE "nothing",
              err |-> bad]

(***************************************************************************)
(* PathScanner                                                             *)
(***************************************************************************)
Star == "*"
Slash == "/"

RECURSIVE PathStr(_)
\* str(path): the names joined by "/"
PathStr(p) == IF p = <<>> THEN <<>> ELSE <<Slash>> \o Head(p) \o PathStr(Tail(p))

RECURSIVE FnMatch(_, _)
\* fnmatch.fnmatch(s, pat): "*" matches any run of characters, "/" included
FnMatch(s, pat) ==
    IF pat = <<>> THEN s = <<>>
    ELSE IF Head(pat) = Star
    THEN FnMatch(s, Tail(pat)) \/ (s # <<>> /\ FnMatch(Tail(s), pat))
    ELSE s # <<>> /\ Head(s) = Head(pat) /\ FnMatch(Tail(s), Tail(pat))

matches_pattern(path, pattern) ==
    FnMatch(PathStr(path), pattern) \/ FnMatch(NameOf(path), pattern)

matches_any_pattern(path, patterns) ==
    \E k \in 1..Len(patterns) : matches_pattern(path, patterns[k])

\* a scan that yields every regular file, whatever the patterns
YieldsEveryFile(f, p, exclude, include) == IsFile(f, p)

\* the filter of the loop body of safe_iter_files, on the filesystem as it is when p is reached
ScanYields(f, p, exclude, include) ==
    /\ IsFile(f, p)
    /\ ~(exclude # <<>> /\ matches_any_pattern(p, exclude))
    /\ ~(include # <<>> /\ ~matches_any_pattern(p, include))

(***************************************************************************)
(* File attributes                                                         *)
(***************************************************************************)
\* st_size of a file of content c: contents 1 and 2 are of exactly one MB, content 3 is one
\* byte larger and content 4 one byte smaller
SizeOf(c) == CASE c = 3 -> BytesPerMB + 1 [] c = 4 -> BytesPerMB - 1 [] OTHER -> BytesPerMB
\* file_hash: the digest of a content is the content's identity
HashOf(c) == c

(***************************************************************************)
(* Case folding, substitution and sanitizing of names                      *)
(***************************************************************************)
LowerTok(t) ==
    CASE t = "X" -> "x" [] t = "Y" -> "y" [] t = "TXT" -> "txt" [] t = "REPORT" -> "report"
      [] OTHER -> t
UpperTok(t) ==
    CASE t = "x" -> "X" [] t = "y" -> "Y" [] t = "txt" -> "TXT" [] t = "report" -> "REPORT"
      [] OTHER -> t

LowerName(n) == [k \in 1..Len(n) |-> LowerTok(n[k])]
UpperName(n) == [k \in 1..Len(n) |-> UpperTok(n[k])]

RECURSIVE RegexSub(_, _, _)
\* regex.sub(replace, name) for a pattern that is one literal token
RegexSub(name, pattern, replace) ==
    IF name = <<>> THEN <<>>
    ELSE IF Head(name) = pattern THEN replace \o RegexSub(Tail(name), pattern, replace)
    ELSE <<Head(name)>> \o RegexSub(Tail(name), pattern, replace)

Space == " "

RECURSIVE CollapseSpaces(_)
CollapseSpaces(n) ==
    IF Len(n) < 2 THEN n
    ELSE IF n[1] = Space /\ n[2] = Space THEN CollapseSpaces(Tail(n))
    ELSE <<n[1]>> \o CollapseSpaces(Tail(n))

RECURSIVE StripSpaces(_)
StripSpaces(n) ==
    IF n = <<>> THEN n
    ELSE IF n[1] = Space THEN StripSpaces(Tail(n))
    ELSE IF n[Len(n)] = Space THEN StripSpaces(SubSeq(n, 1, Len(n) - 1))
    ELSE n

sanitize_filename(name) ==
    StripSpaces(CollapseSpaces([k \in 1..Len(name) |-> SanTok(name[k])]))

(***************************************************************************)
(* The per-file bodies of the command loops.  A loop state st is           *)
(* [fs, acts, err, i]: the filesystem so far, the Actions appended so far, *)
(* whether a call has raised, and cmd_rename's counter i.                  *)
(***************************************************************************)
Opt(v) == <<v>>
IsSet(o) == o # <<>>
Val(o) == o[1]

\* the clock reading time.time() of cmd_clean
NowSeconds == 40 * SecondsPerDay

Took(st, r) ==
    IF r.err THEN [st EXCEPT !.fs = r.fs, !.err = TRUE]
    ELSE [st EXCEPT !.fs = r.fs, !.acts = Append(@, r.act)]

OrganizeKey(f, p, by) ==
    CASE by = "ext" ->
            IF SuffixOf(NameOf(p)) # <<>> THEN LowerName(Tail(SuffixOf(NameOf(p))))
            ELSE <<"noext">>
      [] by = "date" -> <<DateTok(f.files[p].m)>>
      [] OTHER -> <<MonthTok(f.files[p].m)>>

\* by date and by month the key is read from f.stat(), which raises on a file that is gone
OrganizeFile(st, p, c) ==
    IF c.by # "ext" /\ ~IsFile(st.fs, p) THEN [st EXCEPT !.err = TRUE]
    ELSE LET base == IF IsSet(c.dest) THEN Val(c.dest) ELSE c.path
             dst_dir == Child(base, OrganizeKey(st.fs, p, c.by))
         IN  Took(st, move_file(st.fs, p, dst_dir, c.apply))

RECURSIVE LStripDots(_)
LStripDots(n) == IF n # <<>> /\ Head(n) = Dot THEN LStripDots(Tail(n)) ELSE n

\* cmd_rename's name after substitution, enumeration, prefix and suffix
RenameStem(name0, c, i) ==
    LET n1 == IF IsSet(c.pattern) THEN RegexSub(StemOf(name0), Val(c.pattern), c.replace)
              ELSE StemOf(name0)
        n2 == IF c.enumerate_files THEN n1 \o <<"_", NumTok(i, c.width)>> ELSE n1
    IN  c.prefix \o n2 \o c.suffix

\* a case folding in which lower wins when both flags are set
FoldLowerWins(n, lower, upper) ==
    IF lower THEN LowerName(n) ELSE IF upper THEN UpperName(n) ELSE n

\* "if lower and not upper: ... elif upper and not lower: ..."
CaseFold(n, lower, upper) ==
    IF lower /\ ~upper THEN LowerName(n)
    ELSE IF upper /\ ~lower THEN UpperName(n)
    ELSE n

RenameNewName(name0, c, i) ==
    LET new_name == CaseFold(RenameStem(name0, c, i), c.lower, c.upper) \o SuffixOf(name0)
    IN  IF c.sanitize THEN sanitize_filename(new_name) ELSE new_name

RenameFile(st, p, c) ==
    LET only_ext == IF IsSet(c.ext_filter) THEN LStripDots(LowerName(Val(c.ext_filter))) ELSE <<>>
    IN  IF only_ext # <<>> /\ LStripDots(LowerName(SuffixOf(NameOf(p)))) # only_ext THEN st
        ELSE LET new_name == RenameNewName(NameOf(p), c, st.i)
                 st1 == IF c.enumerate_files THEN [st EXCEPT !.i = @ + c.step] ELSE st
             IN  IF new_name # NameOf(p)
                 THEN Took(st1, rename_file(st1.fs, p, new_name, c.apply))
                 ELSE st1

CleanMatches(file, c) ==
    /\ ~(IsSet(c.older_than_days)
            /\ file.m >= NowSeconds - Val(c.older_than_days) * SecondsPerDay)
    /\ ~(IsSet(c.larger_than_mb)
            /\ SizeOf(file.c) < Val(c.larger_than_mb) * BytesPerMB)

\* "try: st = f.stat() except OSError: continue" skips a file that is gone
CleanFile(st, p, c, has_send2trash) ==
    IF ~IsFile(st.fs, p) THEN st
    ELSE IF ~CleanMatches(st.fs.files[p], c) THEN st
    ELSE IF IsSet(c.archive_dir)
    THEN Took(st, move_file(st.fs, p, Val(c.archive_dir), c.apply))
    ELSE IF c.delete_permanently
    THEN Took(st, safe_delete(st.fs, p, FALSE, c.apply, has_send2trash))
    ELSE Took(st, safe_delete(st.fs, p, c.use_trash, c.apply, has_send2trash))

\* what the consumer of safe_iter_files does with the file p it is handed
LoopBody(st, p, c, env) ==
    CASE c.cmd = "organize" -> OrganizeFile(st, p, c)
      [] c.cmd = "rename"   -> RenameFile(st, p, c)
      [] c.cmd = "clean"    -> CleanFile(st, p, c, env.trash)
      [] OTHER              -> [st EXCEPT !.acts = Append(@, p)]

(***************************************************************************)
(* safe_iter_files is a generator over Path.rglob("*") / Path.glob("*"):   *)
(* the consumer's loop body runs between two files, so the scan continues  *)
(* on the filesystem the body has left.  rglob lists a directory once for  *)
(* its entries, hands them out one by one, and only then lists it again    *)
(* for the subdirectories to descend into.                                 *)
(***************************************************************************)
\* the loop state when the consumer gets the file p that the scan has just yielded: a file
\* of env.gone has been removed by another process in between
Handed(st, p, env) ==
    IF p \in env.gone /\ IsFile(st.fs, p) THEN [st EXCEPT !.fs = FsRemoveFile(@, p)] ELSE st

RECURSIVE ScanEntries(_, _, _, _, _)
ScanEntries(st, d, names, c, env) ==
    IF names = <<>> \/ st.err THEN st
    ELSE LET p == Child(d, Head(names))
         IN  Bind(IF ScanYields(st.fs, p, c.exclude, c.include)
                  THEN LoopBody(Handed(st, p, env), p, c, env) ELSE st,
                  LAMBDA st1 : ScanEntries(st1, d, Tail(names), c, env))

RECURSIVE WalkDir(_, _, _, _)
RECURSIVE WalkSubdirs(_, _, _, _, _)
WalkSubdirs(st, d, names, c, env) ==
    IF names = <<>> \/ st.err THEN st
    ELSE LET p == Child(d, Head(names))
         IN  Bind(IF IsDir(st.fs, p) THEN WalkDir(st, p, c, env) ELSE st,
                  LAMBDA st1 : WalkSubdirs(st1, d, Tail(names), c, env))

WalkDir(st, d, c, env) ==
    Bind(Bind(ScanDir(st.fs, d, env.rev), LAMBDA names : ScanEntries(st, d, names, c, env)),
         LAMBDA st1 :
            IF c.recursive /\ ~st1.err
            THEN Bind(ScanDir(st1.fs, d, env.rev),
                      LAMBDA names : WalkSubdirs(st1, d, names, c, env))
            ELSE st1)

\* the loop "for f in safe_iter_files(root, ...): body" as a whole
ForEachFile(st, c, env) ==
    IF ~Exists(st.fs, c.path) THEN st
    ELSE IF IsFile(st.fs, c.path) THEN LoopBody(Handed(st, c.path, env), c.path, c, env)
    ELSE WalkDir(st, c.path, c, env)

Loop0(f) == [fs |-> f, acts |-> <<>>, err |-> FALSE, i |-> 0]

\* the scan drained by a consumer that only collects the files: [fs, acts], the files it
\* yielded and the filesystem as the other process has left it
ScanAll(f, root, recursive, exclude, include, env) ==
    ForEachFile(Loop0(f),
                [cmd |-> "list", path |-> root, recursive |-> recursive,
                 exclude |-> exclude, include |-> include], env)

\* list(safe_iter_files(root, recursive, exclude, include))
safe_iter_files(f, root, recursive, exclude, include, env) ==
    ScanAll(f, root, recursive, exclude, include, env).acts

(***************************************************************************)
(* remove_empty_dirs: os.walk(root, topdown=False) lists a directory,      *)
(* walks its subdirectories, then hands the directory to the loop body.    *)
(***************************************************************************)
RECURSIVE RmWalk(_, _, _, _, _)
RECURSIVE RmWalkAll(_, _, _, _, _, _)
RmWalkAll(st, d, names, root, apply, rev) ==
    IF names = <<>> THEN st
    ELSE LET p == Child(d, Head(names))
         IN  Bind(IF IsDir(st.fs, p) THEN RmWalk(st, p, root, apply, rev) ELSE st,
                  LAMBDA st1 : RmWalkAll(st1, d, Tail(names), root, apply, rev))

RmWalk(st, d, root, apply, rev) ==
    Bind(Bind(ScanDir(st.fs, d, rev), LAMBDA names : RmWalkAll(st, d, names, root, apply, rev)),
         LAMBDA st1 :
            IF d = root THEN st1
            ELSE IF ChildNames(st1.fs, d) = {}
            THEN [st1 EXCEPT !.fs = IF apply THEN FsRmdir(@, d) ELSE @,
                             !.acts = Append(@, Action("rmdir", d, None, NoMeta))]
            ELSE st1)

\* a remove_empty_dirs that removes only the directories with no entry at all when it is
\* called: it does not go back to a parent that its own removals have emptied
RemoveOnlyLeaves(f, root, apply, rev) ==
    IF ~IsDir(f, root) THEN Loop0(f)
    ELSE LET leaves == {d \in f.dirs : /\ Len(d) > Len(root)
                                       /\ SubSeq(d, 1, Len(root)) = root
                                       /\ ChildNames(f, d) = {}}
             order == CHOOSE q \in [1..Cardinality(leaves) -> leaves] :
                          \A i, j \in DOMAIN q : q[i] = q[j] => i = j
         IN  [Loop0(f) EXCEPT
                 !.fs = IF apply THEN [@ EXCEPT !.dirs = @ \ leaves] ELSE @,
                 !.acts = [i \in DOMAIN order |-> Action("rmdir", order[i], None, NoMeta)]]

\* [fs, acts]: the filesystem after remove_empty_dirs(root, apply) and the Actions it returns
remove_empty_dirs(f, root, apply, rev) ==
    IF ~IsDir(f, root) THEN Loop0(f)
    ELSE RmWalk(Loop0(f), root, root, apply, rev)

(***************************************************************************)
(* ActionLog                                                               *)
(***************************************************************************)
\* a _store_actions without its emptiness test
StoreAlways(h, actions) == Append(h, actions)

\* _ACTION_HISTORY after _store_actions(actions)
_store_actions(h, actions) == IF actions # <<>> THEN Append(h, actions) ELSE h

\* get_action_history(): a new list holding the batches of _ACTION_HISTORY
get_action_history(h) == h

\* _ACTION_HISTORY after clear_action_history()
clear_action_history(h) == <<>>

(***************************************************************************)
(* CommandEngine.  A command returns [fs, history, actions, groups, err]:  *)
(* the filesystem and the log it leaves, the list it returns (Actions, or  *)
(* groups for cmd_dupes) and whether it raised instead of returning.       *)
(***************************************************************************)
Raised(f, h) == [fs |-> f, history |-> h, actions |-> <<>>, groups |-> <<>>, err |-> TRUE]

\* a command tail that stores the Actions made so far when the loop has raised
FinishStoresPartial(st, h, c, env) ==
    [fs |-> st.fs, history |-> IF c.apply /\ st.acts # <<>> THEN Append(h, st.acts) ELSE h,
     actions |-> IF st.err THEN <<>> ELSE st.acts, groups |-> <<>>, err |-> st.err]

\* the tail of cmd_organize and cmd_clean, after the loop has ended in st
FinishCommand(st, h, c, env) ==
    IF st.err THEN Raised(st.fs, h)
    ELSE Bind(IF c.remove_empty /\ c.apply
              THEN remove_empty_dirs(st.fs, c.path, c.apply, env.rev)
              ELSE Loop0(st.fs),
              LAMBDA rm :
                 LET actions == st.acts \o rm.acts
                 IN  [fs |-> rm.fs,
                      history |-> IF c.apply THEN _store_actions(h, actions) ELSE h,
                      actions |-> actions, groups |-> <<>>, err |-> FALSE])

cmd_organize(f, h, c, env) ==
    Bind(ForEachFile(Loop0(f), c, env), LAMBDA st : FinishCommand(st, h, c, env))

cmd_clean(f, h, c, env) ==
    Bind(ForEachFile(Loop0(f), c, env), LAMBDA st : FinishCommand(st, h, c, env))

cmd_rename(f, h, c, env) ==
    Bind(ForEachFile([Loop0(f) EXCEPT !.i = c.start], c, env),
         LAMBDA st :
            IF st.err THEN Raised(st.fs, h)
            ELSE [fs |-> st.fs,
                  history |-> IF c.apply THEN _store_actions(h, st.acts) ELSE h,
                  actions |-> st.acts, groups |-> <<>>, err |-> FALSE])

(***************************************************************************)
(* ParallelHasher and DuplicateDetector.  A dict is a sequence of          *)
(* [k, v] in insertion order.                                              *)
(***************************************************************************)
RECURSIVE Distinct(_)
\* the elements of a sequence, each at its first occurrence
Distinct(q) ==
    IF q = <<>> THEN <<>>
    ELSE LET rest == Distinct(SubSeq(q, 1, Len(q) - 1))
             x == q[Len(q)]
         IN  IF \E k \in 1..Len(rest) : rest[k] = x THEN rest ELSE Append(rest, x)

RECURSIVE Keep(_, _)
\* the elements of q that are in the set S, in their order in q
Keep(q, S) ==
    IF q = <<>> THEN <<>>
    ELSE IF Head(q) \in S THEN <<Head(q)>> \o Keep(Tail(q), S)
    ELSE Keep(Tail(q), S)

Range(q) == {q[k] : k \in 1..Len(q)}

\* by_size: by_size.setdefault(size, []).append(f), for the files in order; a file whose
\* stat raises OSError is left out
BySize(f, scanned) ==
    Bind(Keep(scanned, {p \in Range(scanned) : IsFile(f, p)}),
         LAMBDA files :
    Bind(Distinct([k \in 1..Len(files) |-> SizeOf(f.files[files[k]].c)]),
         LAMBDA keys :
            [j \in 1..Len(keys) |->
                [k |-> keys[j],
                 v |-> Keep(files, {p \in Range(files) : SizeOf(f.files[p].c) = keys[j]})]]))

\* by_hash: by_hash.setdefault(h, []).append(f), for the items [k: file, v: Opt(hash)] of hashes
\* in order, those of hash None left out
ByHash(hashes) ==
    LET hashed == Keep(hashes, {e \in Range(hashes) : e.v # None})
        keys == Distinct([k \in 1..Len(hashed) |-> Val(hashed[k].v)])
    IN  [j \in 1..Len(keys) |->
            [k |-> keys[j],
             v |-> LET es == Keep(hashed, {e \in Range(hashed) : Val(e.v) = keys[j]})
                   IN  [i \in 1..Len(es) |-> es[i].k]]]

RECURSIVE Flatten(_)
Flatten(qq) == IF qq = <<>> THEN <<>> ELSE Head(qq) \o Flatten(Tail(qq))

\* a hasher that gives up the whole batch when one file cannot be hashed
HashAbortsBatch(f, files, completion, failed) ==
    IF \E k \in 1..Len(files) : files[k] \in failed \/ ~IsFile(f, files[k]) THEN <<>>
    ELSE [j \in 1..Len(files) |->
            [k |-> files[completion[j]], v |-> Opt(HashOf(f.files[files[completion[j]]].c))]]

\* parallel_hash_files(files): completion is the order in which as_completed hands the
\* futures back (a permutation of 1..Len(files)), failed the files whose file_hash raises
parallel_hash_files(f, files, completion, failed) ==
    [j \in 1..Len(files) |->
        LET file == files[completion[j]]
        IN  [k |-> file,
             v |-> IF file \in failed \/ ~IsFile(f, file) THEN None
                   ELSE Opt(HashOf(f.files[file].c))]]

\* a candidate selection that hands every scanned file to the hasher
AllCandidates(f, files) == files

\* candidates: the files of the size buckets that hold at least two files, bucket by bucket
DupeCandidates(f, files) ==
    Bind(BySize(f, files),
         LAMBDA by_size :
            Flatten([j \in 1..Len(by_size) |->
                        IF Len(by_size[j].v) >= 2 THEN by_size[j].v ELSE <<>>]))

\* a loop body that removes the file that was to be kept and spares the duplicate
DupeActionOnKeep(f, p, keep, c, has_send2trash) ==
    IF c.action = "archive" /\ IsSet(c.archive_dir)
    THEN move_file(f, keep, Val(c.archive_dir), c.apply)
    ELSE safe_delete(f, keep, c.action = "trash", c.apply, has_send2trash)

\* the body of the loop "for f in files[1:]": the Action on the duplicate p
DupeAction(f, p, keep, c, has_send2trash) ==
    CASE c.action = "list"    -> [fs |-> f, act |-> Action("dupe", p, None, <<"kept", keep>>), err |-> FALSE]
      [] c.action = "trash"   -> safe_delete(f, p, TRUE, c.apply, has_send2trash)
      [] c.action = "delete"  -> safe_delete(f, p, FALSE, c.apply, has_send2trash)
      [] c.action = "archive" /\ IsSet(c.archive_dir)
                              -> move_file(f, p, Val(c.archive_dir), c.apply)
      [] OTHER                -> [fs |-> f, act |-> Action("dupe", p, None, <<"kept", keep>>), err |-> FALSE]

RECURSIVE DupeActions(_, _, _, _, _)
\* the loop "for f in files[1:]" of one group
DupeActions(st, files, keep, c, env) ==
    IF files = <<>> \/ st.err THEN st
    ELSE Bind(Took(st, DupeAction(st.fs, Head(files), keep, c, env.trash)),
              LAMBDA st1 : DupeActions(st1, Tail(files), keep, c, env))

RECURSIVE DupeGroups(_, _, _, _)
\* the loop "for h, files in by_hash.items()"; st is [fs, groups, all, err]
DupeGroups(st, by_hash, c, env) ==
    IF by_hash = <<>> \/ st.err THEN st
    ELSE LET h == Head(by_hash).k
             files == Head(by_hash).v
         IN  IF Len(files) < 2 THEN DupeGroups(st, Tail(by_hash), c, env)
             ELSE IF ~IsFile(st.fs, files[1]) THEN [st EXCEPT !.err = TRUE]
             ELSE Bind(DupeActions(Loop0(st.fs), Tail(files), files[1], c, env),
                       LAMBDA r :
                          LET group == [hash |-> h,
                                        size_bytes |-> SizeOf(st.fs.files[files[1]].c),
                                        count |-> Len(files),
                                        keep |-> files[1],
                                        duplicates |-> Tail(files),
                                        actions |-> r.acts]
                          IN  Bind([fs |-> r.fs,
                                    groups |-> IF r.err THEN st.groups
                                               ELSE Append(st.groups, group),
                                    all |-> st.all \o r.acts,
                                    err |-> r.err],
                                   LAMBDA st1 : DupeGroups(st1, Tail(by_hash), c, env)))

\* the files cmd_dupes hands to parallel_hash_files
cmd_dupes_candidates(f, c, env) ==
    Bind(ScanAll(f, c.path, c.recursive, c.exclude, <<>>, env),
         LAMBDA scan : DupeCandidates(scan.fs, scan.acts))

cmd_dupes(f, h, c, env, completion, failed) ==
    Bind(ScanAll(f, c.path, c.recursive, c.exclude, <<>>, env),
         LAMBDA scan :
    Bind(ByHash(parallel_hash_files(scan.fs, DupeCandidates(scan.fs, scan.acts),
                                    completion, failed)),
         LAMBDA by_hash :
    Bind(DupeGroups([fs |-> scan.fs, groups |-> <<>>, all |-> <<>>, err |-> FALSE],
                    by_hash, c, env),
         LAMBDA st :
            IF st.err THEN Raised(st.fs, h)
            ELSE [fs |-> st.fs,
                  history |-> IF c.apply /\ st.all # <<>> THEN _store_actions(h, st.all) ELSE h,
                  actions |-> st.all, groups |-> st.groups, err |-> FALSE])))

(***************************************************************************)
(* Undo: core.undo_actions and the router's POST /undo                     *)
(***************************************************************************)
\* an undo that walks the batch first to last
Forward(q) == q

RECURSIVE Reverse(_)
Reverse(q) == IF q = <<>> THEN <<>> ELSE Append(Reverse(Tail(q)), Head(q))

\* an undo step that raises on a trash or delete Action
UndoDeleteRaises(st, a, apply) ==
    IF a.op \in {"trash", "delete"} THEN [st EXCEPT !.err = TRUE]
    ELSE IF a.op = "rmdir"
    THEN [st EXCEPT !.fs = IF apply /\ ~MkdirFails(@, a.src) THEN FsMkdirs(@, a.src) ELSE @,
                    !.acts = Append(@, Action("mkdir", a.src, None, NoMeta))]
    ELSE st

\* an undo loop that reverses nothing
UndoNothing(st, actions, apply) == st

\* Path(p).mkdir(parents=True, exist_ok=True) raises when p or a parent is a regular file
UndoOne(st, a, apply) ==
    IF a.op = "move" /\ a.dst # None
    THEN Took(st, move_file(st.fs, a.dst, Parent(a.src), apply))
    ELSE IF a.op = "rename" /\ a.dst # None
    THEN Took(st, rename_file(st.fs, a.dst, NameOf(a.src), apply))
    ELSE IF a.op \in {"trash", "delete"}
    THEN [st EXCEPT !.acts = Append(@, Action("undo_failed", a.src, None,
                                        <<"reason", "Cannot restore deleted files">>))]
    ELSE IF a.op = "rmdir"
    THEN IF apply /\ MkdirFails(st.fs, a.src) THEN [st EXCEPT !.err = TRUE]
         ELSE [st EXCEPT !.fs = IF apply THEN FsMkdirs(@, a.src) ELSE @,
                         !.acts = Append(@, Action("mkdir", a.src, None, NoMeta))]
    ELSE st

RECURSIVE UndoLoop(_, _, _)
UndoLoop(st, actions, apply) ==
    IF actions = <<>> \/ st.err THEN st
    ELSE Bind(UndoOne(st, Head(actions), apply),
              LAMBDA st1 : UndoLoop(st1, Tail(actions), apply))

\* core.undo_actions(actions, apply): [fs, acts, err]
undo_actions(f, actions, apply) ==
    Bind(Reverse(actions), LAMBDA reversed : UndoLoop(Loop0(f), reversed, apply))

\* list.pop(k) for a 0-based k
Pop(q, k) == SubSeq(q, 1, k) \o SubSeq(q, k + 2, Len(q))

\* the "except Exception" clause of the handler catches the HTTPException raised in its
\* own try block and raises HTTPException(500) in its place
ExceptException(status) == 500

\* POST /undo: [fs, history, status, actions]; req.batch_index is None or Opt(k)
undo_request(f, h, req) ==
    LET local == get_action_history(h)
        batch_index == IF IsSet(req.batch_index) THEN Val(req.batch_index) ELSE Len(local) - 1
    IN  IF local = <<>>
        THEN [fs |-> f, history |-> h, status |-> ExceptException(404), actions |-> <<>>]
        ELSE IF batch_index < 0 \/ batch_index >= Len(local)
        THEN [fs |-> f, history |-> h, status |-> ExceptException(400), actions |-> <<>>]
        ELSE Bind(undo_actions(f, local[batch_index + 1], req.apply),
                  LAMBDA r :
                     LET popped == IF req.apply THEN Pop(local, batch_index) ELSE local
                     IN  IF r.err
                         THEN [fs |-> r.fs, history |-> h, status |-> 500, actions |-> <<>>]
                         ELSE [fs |-> r.fs, history |-> h, status |-> 200, actions |-> r.acts])

(***************************************************************************)
(* The filesystems and the requests of the model                           *)
(***************************************************************************)
W == <<<<"w">>>>
Out == <<<<"out">>>>
Arch == <<<<"w">>, <<"arch">>>>

MtimeOld == 0 * SecondsPerDay
MtimeCutoff == NowSeconds - SecondsPerDay
MtimeFeb == DaysInJanuary * SecondsPerDay

FileX  == [p |-> W \o <<<<"x", ".", "txt">>>>, c |-> 1, m |-> MtimeOld]
FileAX == [p |-> W \o <<<<"a">>, <<"x", ".", "txt">>>>, c |-> 1, m |-> MtimeCutoff]
FileAY == [p |-> W \o <<<<"a">>, <<"Y", ".", "TXT">>>>, c |-> 3, m |-> MtimeFeb]
FileR  == [p |-> W \o <<<<"report", ".", "txt">>>>, c |-> 3, m |-> MtimeOld]
FileN  == [p |-> W \o <<<<"b">>, <<"e">>, <<"notes">>>>, c |-> 4, m |-> MtimeFeb]

MkFs(S) ==
    [locked |-> {},
     dirs  |-> {W} \cup UNION {Prefixes(Parent(x.p)) : x \in S},
     files |-> [q \in {x.p : x \in S} |->
                    LET x == CHOOSE y \in S : y.p = q IN [c |-> x.c, m |-> x.m]]]

InitialFilesystems == {MkFs({FileX, FileAX, FileAY}), MkFs({FileR, FileN})}

Env == [rev |-> scanRev, trash |-> hasTrash, gone |-> gone]

OrganizeDefaults ==
    [cmd |-> "organize", path |-> W, by |-> "ext", dest |-> None, recursive |-> TRUE,
     exclude |-> <<>>, include |-> <<>>, remove_empty |-> FALSE, apply |-> FALSE]

OrganizeCalls ==
    {[OrganizeDefaults EXCEPT !.apply = ap] : ap \in BOOLEAN}
    \cup {[OrganizeDefaults EXCEPT !.dest = Opt(Out), !.remove_empty = TRUE, !.apply = ap] :
            ap \in BOOLEAN}
    \cup {[OrganizeDefaults EXCEPT !.by = "date", !.recursive = FALSE, !.apply = TRUE],
          [OrganizeDefaults EXCEPT !.by = "month", !.dest = Opt(Out), !.apply = TRUE]}

RenameDefaults ==
    [cmd |-> "rename", path |-> W, pattern |-> None, replace |-> <<>>, prefix |-> <<>>,
     suffix |-> <<>>, lower |-> FALSE, upper |-> FALSE, sanitize |-> FALSE,
     enumerate_files |-> FALSE, start |-> 1, step |-> 1, width |-> 3, ext_filter |-> None,
     recursive |-> TRUE, exclude |-> <<>>, include |-> <<>>, apply |-> FALSE]

RenameCalls ==
    {[RenameDefaults EXCEPT !.enumerate_files = TRUE, !.apply = ap] : ap \in BOOLEAN}
    \cup {[RenameDefaults EXCEPT !.pattern = Opt("x"), !.replace = <<"Y">>, !.upper = TRUE,
                                 !.ext_filter = Opt(<<".", "TXT">>), !.apply = ap] :
            ap \in BOOLEAN}
    \cup {[RenameDefaults EXCEPT !.prefix = <<"X">>, !.lower = TRUE, !.upper = TRUE,
                                 !.recursive = FALSE, !.apply = TRUE],
          [RenameDefaults EXCEPT !.lower = TRUE, !.sanitize = TRUE, !.apply = TRUE]}

CleanDefaults ==
    [cmd |-> "clean", path |-> W, older_than_days |-> None, larger_than_mb |-> None,
     archive_dir |-> None, use_trash |-> TRUE, delete_permanently |-> FALSE,
     remove_empty |-> FALSE, recursive |-> TRUE, exclude |-> <<>>, include |-> <<>>,
     apply |-> FALSE]

CleanCalls ==
    {[CleanDefaults EXCEPT !.older_than_days = Opt(1), !.apply = ap] : ap \in BOOLEAN}
    \cup {[CleanDefaults EXCEPT !.larger_than_mb = Opt(1), !.archive_dir = Opt(Arch),
                                !.remove_empty = TRUE, !.apply = ap] : ap \in BOOLEAN}
    \cup {[CleanDefaults EXCEPT !.delete_permanently = TRUE, !.remove_empty = TRUE,
                                !.apply = TRUE],
          [CleanDefaults EXCEPT !.apply = FALSE],
          [CleanDefaults EXCEPT !.older_than_days = Opt(1), !.larger_than_mb = Opt(1),
                                !.use_trash = FALSE, !.recursive = FALSE, !.apply = TRUE]}

DupesDefaults ==
    [cmd |-> "dupes", path |-> W, action |-> "list", archive_dir |-> None,
     recursive |-> TRUE, exclude |-> <<>>, include |-> <<>>, apply |-> FALSE]

DupesCalls ==
    {[DupesDefaults EXCEPT !.action = a, !.apply = ap] :
        a \in {"list", "trash", "delete"}, ap \in BOOLEAN}
    \cup {[DupesDefaults EXCEPT !.action = "archive", !.archive_dir = Opt(Arch), !.apply = ap] :
            ap \in BOOLEAN}
    \cup {[DupesDefaults EXCEPT !.action = "archive", !.apply = TRUE]}

UndoCalls ==
    [cmd : {"undo"}, batch_index : {None, Opt(0), Opt(MaxOps - 1)}, apply : BOOLEAN]
    \cup {[cmd |-> "undo", batch_index |-> Opt(-1), apply |-> TRUE]}

Perms(n) == {q \in [1..n -> 1..n] : \A i, j \in 1..n : i # j => q[i] # q[j]}

(***************************************************************************)
(* The state machine: one action per entry point                           *)
(***************************************************************************)
NoCall == [cmd |-> "none", apply |-> FALSE]
\* no call of parallel_hash_files is running
NoPool == [pc |-> "idle"]
\* no generator is being consumed
NoStream == [pc |-> "none"]
\* no KeyLogger has been constructed
NoLogger == [pc |-> "none"]

\* the last call in short: its command, its apply flag, whether it added a batch to the log
CmdOf(l) == [cmd |-> l.call.cmd, apply |-> l.call.apply,
             stored |-> Len(history) > Len(prevHistory)]

Init ==
    /\ fs \in InitialFilesystems
    /\ history = <<>>
    /\ hasTrash \in BOOLEAN
    /\ scanRev \in BOOLEAN
    /\ prevFs = fs
    /\ prevHistory = history
    /\ last = [call |-> NoCall, completion |-> <<>>, err |-> FALSE, status |-> 200,
               actions |-> <<>>, groups |-> <<>>]
    /\ prevCmd = [cmd |-> "none", apply |-> FALSE, stored |-> FALSE]
    /\ nOps = 0
    /\ unreadable = {}
    /\ pool = NoPool
    /\ stream = NoStream
    /\ gone = {}
    /\ logger = NoLogger

\* one call: f and h are the filesystem and the log it leaves, l what it returned
Step(f, h, l) ==
    /\ nOps' = nOps + 1
    /\ prevFs' = fs
    /\ prevHistory' = history
    /\ prevCmd' = CmdOf(last)
    /\ fs' = f
    /\ history' = h
    /\ last' = l
    /\ UNCHANGED <<hasTrash, scanRev, unreadable, pool, stream, gone, logger>>

\* what the caller of a cmd_* function sees: the list it returns, or the exception
Returned(c, completion, r) ==
    [call |-> c, completion |-> completion, err |-> r.err,
     status |-> IF r.err THEN 500 ELSE 200, actions |-> r.actions, groups |-> r.groups]

Organize ==
    /\ nOps < MaxOps
    /\ \E c \in OrganizeCalls : \E r \in {cmd_organize(fs, history, c, Env)} :
            Step(r.fs, r.history, Returned(c, <<>>, r))

Rename ==
    /\ nOps < MaxOps
    /\ \E c \in RenameCalls : \E r \in {cmd_rename(fs, history, c, Env)} :
            Step(r.fs, r.history, Returned(c, <<>>, r))

Clean ==
    /\ nOps < MaxOps
    /\ \E c \in CleanCalls : \E r \in {cmd_clean(fs, history, c, Env)} :
            Step(r.fs, r.history, Returned(c, <<>>, r))

Dupes ==
    /\ nOps < MaxOps
    /\ \E c \in DupesCalls :
         \E completion \in Perms(Len(cmd_dupes_candidates(fs, c, Env))) :
            \E r \in {cmd_dupes(fs, history, c, Env, completion, unreadable)} :
                Step(r.fs, r.history, Returned(c, completion, r))

Undo ==
    /\ nOps < MaxOps
    /\ \E req \in UndoCalls : \E r \in {undo_request(fs, history, req)} :
            Step(r.fs, r.history,
                 [call |-> req, completion |-> <<>>, err |-> r.status # 200,
                  status |-> r.status, actions |-> r.actions, groups |-> <<>>])

ClearHistory ==
    /\ nOps < MaxOps
    /\ history # <<>>
    /\ Step(fs, clear_action_history(history),
            [call |-> [cmd |-> "clear", apply |-> TRUE], completion |-> <<>>, err |-> FALSE,
             status |-> 200, actions |-> <<>>, groups |-> <<>>])

Next == Organize \/ Rename \/ Clean \/ Dupes \/ Undo \/ ClearHistory

Spec == Init /\ [][Next]_vars

(***************************************************************************)
(* Properties                                                              *)
(***************************************************************************)
Commands == {"organize", "rename", "clean", "dupes"}

\* the last call was one of the four commands, as a dry run / applied
DryRun == last.call.cmd \in Commands /\ ~last.call.apply
Applied == last.call.cmd \in Commands /\ last.call.apply

\* the call c made on filesystem f with log h
RunCall(f, h, c, env, completion) ==
    CASE c.cmd = "organize" -> cmd_organize(f, h, c, env)
      [] c.cmd = "rename"   -> cmd_rename(f, h, c, env)
      [] c.cmd = "clean"    -> cmd_clean(f, h, c, env)
      [] c.cmd = "dupes"    -> cmd_dupes(f, h, c, env, completion, unreadable)

\* the orders in which the hash workers of the call c can complete
Completions(f, c, env) ==
    IF c.cmd = "dupes" THEN Perms(Len(cmd_dupes_candidates(f, c, env))) ELSE {<<>>}

\* the last call was POST /undo and named a batch of the log
UndoIndex ==
    IF IsSet(last.call.batch_index) THEN Val(last.call.batch_index) ELSE Len(prevHistory) - 1
UndoValid ==
    /\ last.call.cmd = "undo"
    /\ prevHistory # <<>>
    /\ UndoIndex >= 0
    /\ UndoIndex < Len(prevHistory)
UndoBatch == prevHistory[UndoIndex + 1]
UndoDone == UndoValid /\ last.status = 200

\* q read from its last element to its first
Backwards(q) == [k \in 1..Len(q) |-> q[Len(q) + 1 - k]]

IsDeletion(a) == a.op \in {"trash", "delete"}
IsReversible(a) == a.op \in {"move", "rename", "trash", "delete", "rmdir"}
IsUndoFailed(a) == a.op = "undo_failed"
IsMove(a) == a.op = "move"

\* 'stem (i)ext' next to dst
Numbered(dst, i) ==
    Child(Parent(dst), StemOf(NameOf(dst)) \o <<ParenTok(i)>> \o SuffixOf(NameOf(dst)))

\* C1: after an applied undo that succeeded, the batch it undid is no longer in the log
\* (so the same request made again cannot process that batch a second time)
C1_UndoRemovesBatch ==
    (UndoDone /\ last.call.apply) => history = Pop(prevHistory, UndoIndex)

\* C2: a dry run of organize, rename, clean, findDuplicates or undo leaves the filesystem
\* (no directory created, no file moved, renamed or deleted) and the log as they were
C2_DryRunChangesNothing ==
    (last.call.cmd \in Commands \cup {"undo"} /\ ~last.call.apply)
        => fs = prevFs /\ history = prevHistory

\* a dry run of organize into a destination that does not exist, with files to move
C2_Witness ==
    /\ DryRun
    /\ last.call.cmd = "organize"
    /\ last.call.dest = Opt(Out)
    /\ last.actions # <<>>
    /\ ~Exists(fs, Out)

\* C3: the list an applied command returns is the list its dry run returns in the same
\* filesystem: same Actions, same order, same dst, rmdir Actions included
C3_DryRunListIsAppliedList ==
    (Applied /\ ~last.err) =>
        LET dry == RunCall(prevFs, prevHistory, [last.call EXCEPT !.apply = FALSE], Env,
                           last.completion)
        IN  dry.actions = last.actions

\* C4: a dry run made again with the same arguments in the same filesystem returns the
\* same result, whatever the order in which the hash workers complete
C4_DryRunIdempotent ==
    /\ DryRun =>
          \A completion \in Completions(fs, last.call, Env) :
              LET again == RunCall(fs, history, last.call, Env, completion)
              IN  again.actions = last.actions /\ again.groups = last.groups
    /\ (last.call.cmd = "undo" /\ ~last.call.apply) =>
          LET again == undo_request(fs, history, last.call)
          IN  again.actions = last.actions /\ again.status = last.status

\* C5: the moves of one applied organize or archiving clean overwrite nothing: the files
\* and their contents are all still there, and distinct sources of one bare filename sent
\* into one directory get pairwise distinct dst
C5_CollisionSafety ==
    (/\ Applied
     /\ ~last.err
     /\ \/ last.call.cmd = "organize"
        \/ last.call.cmd = "clean" /\ IsSet(last.call.archive_dir)) =>
        LET moves == SelectSeq(last.actions, IsMove)
        IN  /\ Cardinality(DOMAIN fs.files) = Cardinality(DOMAIN prevFs.files)
            /\ \A p \in DOMAIN prevFs.files :
                  Cardinality({q \in DOMAIN fs.files : fs.files[q] = prevFs.files[p]})
                    = Cardinality({q \in DOMAIN prevFs.files :
                                      prevFs.files[q] = prevFs.files[p]})
            /\ \A i, j \in 1..Len(moves) :
                  (/\ moves[i].src # moves[j].src
                   /\ NameOf(moves[i].src) = NameOf(moves[j].src)
                   /\ Parent(moves[i].dst) = Parent(moves[j].dst))
                      => moves[i].dst # moves[j].dst

\* the paths unique_path is asked about: every path that exists, and two names in
\* every directory
ProbePaths ==
    AllPaths(fs) \cup {Child(d, n) : d \in fs.dirs, n \in {<<"x", ".", "txt">>, <<"notes">>}}

\* C6: unique_path(dst) is dst when dst does not exist, and otherwise 'stem (i)ext' next to
\* dst for the smallest i >= 1 that does not exist; what it returns does not exist
C6_UniquePath ==
    \A dst \in ProbePaths :
        LET u == unique_path(fs, dst)
        IN  /\ ~Exists(fs, u)
            /\ ~Exists(fs, dst) => u = dst
            /\ Exists(fs, dst) =>
                  \E i \in 1..(Cardinality(AllPaths(fs)) + 1) :
                      /\ u = Numbered(dst, i)
                      /\ \A j \in 1..(i - 1) : Exists(fs, Numbered(dst, j))

\* dst and 'stem (1)ext' exist, so that unique_path answers 'stem (2)ext'
C6_Witness ==
    \E dst \in DOMAIN fs.files :
        /\ Exists(fs, Numbered(dst, 1))
        /\ unique_path(fs, dst) = Numbered(dst, 2)

\* r is the reverse of a: a move goes from its dst back into the directory of its src, a
\* rename goes from its dst back to the bare filename of its src (numbered by unique_path
\* when that name is taken), a deletion is reported, a removed directory is made again
Reverses(r, a) ==
    CASE a.op = "move"   -> /\ r.op = "move"
                            /\ r.src = a.dst
                            /\ Parent(r.dst) = Parent(a.src)
      [] a.op = "rename" -> /\ r.op = "rename"
                            /\ r.src = a.dst
                            /\ LET back == Child(Parent(a.dst), NameOf(a.src))
                               IN  \/ r.dst = back
                                   \/ \E i \in 1..(Cardinality(AllPaths(prevFs)) + 1) :
                                         r.dst = Numbered(back, i)
      [] IsDeletion(a)   -> r.op = "undo_failed" /\ r.src = a.src
      [] a.op = "rmdir"  -> r.op = "mkdir" /\ r.src = a.src
      [] OTHER           -> FALSE

C8_UndoOfDeletions ==
    UndoValid =>
        LET deleted == Backwards(SelectSeq(UndoBatch, IsDeletion))
            failed == SelectSeq(last.actions, IsUndoFailed)
        IN  /\ (\A k \in 1..Len(UndoBatch) : IsDeletion(UndoBatch[k]))
                  => last.status = 200 /\ fs = prevFs
            /\ last.status = 200 =>
                  /\ Len(failed) = Len(deleted)
                  /\ \A k \in 1..Len(deleted) :
                        /\ failed[k].src = deleted[k].src
                        /\ failed[k].dst = None
                        /\ Len(failed[k].meta) = 2
                        /\ failed[k].meta[1] = "reason"
                  /\ Len(last.actions) = Len(SelectSeq(UndoBatch, IsReversible))
                  /\ (\A k \in 1..Len(UndoBatch) : UndoBatch[k].op \notin {"move", "rename"})
                        => fs.files = prevFs.files

\* an applied undo of a batch that holds a deletion and a removed directory
C8_Witness ==
    /\ UndoDone
    /\ last.call.apply
    /\ \E k \in 1..Len(UndoBatch) : IsDeletion(UndoBatch[k])
    /\ \E k \in 1..Len(UndoBatch) : UndoBatch[k].op = "rmdir" /\ IsDir(fs, UndoBatch[k].src)
    /\ \E k \in 1..Len(last.actions) : IsUndoFailed(last.actions[k])

\* the last call was an applied undo of the batch that an applied rename, the call
\* before it, had just stored
RenameThenUndo ==
    /\ UndoDone
    /\ last.call.apply
    /\ prevCmd.cmd = "rename"
    /\ prevCmd.apply
    /\ prevCmd.stored
    /\ UndoIndex = Len(prevHistory) - 1

\* C9: an applied rename followed at once by the applied undo of its batch puts every
\* renamed file back at its path with its content, and changes nothing else
C9_RenameUndoRoundTrip ==
    RenameThenUndo =>
        LET srcs == {UndoBatch[k].src : k \in 1..Len(UndoBatch)}
            dsts == {UndoBatch[k].dst : k \in 1..Len(UndoBatch)}
        IN  /\ \A k \in 1..Len(UndoBatch) :
                  /\ IsFile(fs, UndoBatch[k].src)
                  /\ fs.files[UndoBatch[k].src] = prevFs.files[UndoBatch[k].dst]
            /\ DOMAIN fs.files = (DOMAIN prevFs.files \ dsts) \cup srcs
            /\ \A p \in DOMAIN prevFs.files \ dsts : fs.files[p] = prevFs.files[p]
            /\ fs.dirs = prevFs.dirs

\* report.txt, renamed to report_001.txt by the call before, is back
C9_Witness ==
    /\ RenameThenUndo
    /\ \E k \in 1..Len(UndoBatch) :
          /\ UndoBatch[k].src = Child(W, <<"report", ".", "txt">>)
          /\ UndoBatch[k].dst # UndoBatch[k].src
          /\ IsFile(fs, UndoBatch[k].src)
          /\ ~IsFile(fs, UndoBatch[k].dst)

\* C10: the log grows only by an applied command that returns a non-empty Action list,
\* which it appends as one batch at the end; every other call leaves it as it is or
\* shorter, and no batch of the log is empty
C10_LogGrowth ==
    /\ (last.call.cmd \in Commands /\ ~last.err) =>
          history = IF last.call.apply /\ last.actions # <<>>
                    THEN Append(prevHistory, last.actions)
                    ELSE prevHistory
    /\ (last.call.cmd \in Commands /\ last.err) => history = prevHistory
    /\ last.call.cmd \notin Commands => Len(history) <= Len(prevHistory)
    /\ \A k \in 1..Len(history) : history[k] # <<>>

\* an applied command has appended a second batch
C10_Witness ==
    /\ Applied
    /\ last.actions # <<>>
    /\ Len(history) = 2
    /\ history[2] = last.actions

\* the file p is one the call c scans: below c.path, directly below it when not recursive
InScope(p, c) ==
    /\ Len(p) > Len(c.path)
    /\ SubSeq(p, 1, Len(c.path)) = c.path
    /\ c.recursive \/ Parent(p) = c.path

\* the selection rule of clean as the specification words it: strictly older than the
\* cutoff and strictly larger than the threshold
Selected(file, c) ==
    /\ ~IsSet(c.older_than_days)
          \/ file.m < NowSeconds - Val(c.older_than_days) * SecondsPerDay
    /\ ~IsSet(c.larger_than_mb)
          \/ SizeOf(file.c) > Val(c.larger_than_mb) * BytesPerMB

\* C17: clean gives an Action to a scanned file if and only if the file is strictly older
\* than the cutoff (when an age is given) and strictly larger than the threshold (when a
\* size is given); a file of exactly the threshold size gets none
C17_CleanSelection ==
    (last.call.cmd = "clean" /\ ~last.err) =>
        \A p \in DOMAIN prevFs.files :
            InScope(p, last.call) =>
                ((\E k \in 1..Len(last.actions) :
                      last.actions[k].src = p /\ last.actions[k].op # "rmdir")
                  <=> Selected(prevFs.files[p], last.call))

\* C18: cmd_clean called with neither filter reports an error, returns no Action and leaves
\* the filesystem and the log as they were, applied or not
C18_CleanNeedsAFilter ==
    (/\ last.call.cmd = "clean"
     /\ ~IsSet(last.call.older_than_days)
     /\ ~IsSet(last.call.larger_than_mb)) =>
        /\ last.err
        /\ last.actions = <<>>
        /\ fs = prevFs
        /\ history = prevHistory

\* the new names cmd_rename computes for the file name n under the last call's recipe
\* (sanitizing apart), with the case flags set to lo and up
Folded(n, lo, up) ==
    RenameNewName(n, [last.call EXCEPT !.lower = lo, !.upper = up, !.sanitize = FALSE],
                  last.call.start)

\* C19 as the code has it: the case folding acts on the stem after substitution,
\* enumeration, prefix and suffix; lower alone lower-cases it, upper alone upper-cases it,
\* and with both flags set, as with none, it is left as it is
C19_CaseFoldBothIsNone ==
    last.call.cmd = "rename" =>
        \A p \in DOMAIN prevFs.files :
            LET n == NameOf(p)
                stem == RenameStem(n, last.call, last.call.start)
            IN  /\ Folded(n, TRUE, FALSE) = LowerName(stem) \o SuffixOf(n)
                /\ Folded(n, FALSE, TRUE) = UpperName(stem) \o SuffixOf(n)
                /\ Folded(n, FALSE, FALSE) = stem \o SuffixOf(n)
                /\ Folded(n, TRUE, TRUE) = stem \o SuffixOf(n)

\* C19 as the specification words it: with both flags set lower wins, the new name is the
\* one lower alone gives
C19_CaseFoldLowerWins ==
    last.call.cmd = "rename" =>
        \A p \in DOMAIN prevFs.files :
            Folded(NameOf(p), TRUE, TRUE) = Folded(NameOf(p), TRUE, FALSE)

\* an applied rename with prefix X and both flags set has renamed a file to a name that
\* still starts with the capital X
C19_Witness ==
    /\ last.call.cmd = "rename"
    /\ last.call.apply
    /\ last.call.lower
    /\ last.call.upper
    /\ \E k \in 1..Len(last.actions) :
          /\ Head(NameOf(last.actions[k].dst)) = "X"
          /\ LowerName(NameOf(last.actions[k].dst)) # NameOf(last.actions[k].dst)
          /\ IsFile(fs, last.actions[k].dst)

\* C20: safe_delete returns a trash Action and calls send2trash exactly when use_trash is
\* set and send2trash is there; otherwise it returns a delete Action and unlinks the file;
\* a missing send2trash raises nothing, and a dry run calls neither
C20_SafeDelete ==
    \A p \in DOMAIN fs.files : \A use_trash, apply \in BOOLEAN :
        LET r == safe_delete(fs, p, use_trash, apply, hasTrash)
        IN  /\ ~r.err
            /\ r.act.src = p
            /\ r.act.op = IF use_trash /\ hasTrash THEN "trash" ELSE "delete"
            /\ r.did = IF ~apply THEN "nothing"
                       ELSE IF r.act.op = "trash" THEN "send2trash" ELSE "unlink"
            /\ apply => /\ ~IsFile(r.fs, p)
                        /\ DOMAIN r.fs.files = DOMAIN fs.files \ {p}
            /\ ~apply => r.fs = fs

\* an applied clean that asked for the trash, with send2trash missing, has deleted a file
\* and says so
C20_Witness ==
    /\ last.call.cmd = "clean"
    /\ last.call.apply
    /\ last.call.use_trash
    /\ ~last.call.delete_permanently
    /\ ~IsSet(last.call.archive_dir)
    /\ ~hasTrash
    /\ ~last.err
    /\ \E k \in 1..Len(last.actions) :
          /\ last.actions[k].op = "delete"
          /\ IsFile(prevFs, last.actions[k].src)
          /\ ~IsFile(fs, last.actions[k].src)


(***************************************************************************)
(* Duplicate detection on directories with duplicates and unreadable files: *)
(* POST /dupes and GET /dupes/stream                                        *)
(***************************************************************************)
MaxUnreadable == 1
MaxDupeOps == 1

FileBX == [p |-> W \o <<<<"b">>, <<"x", ".", "txt">>>>, c |-> 1, m |-> MtimeOld]
FileY  == [p |-> W \o <<<<"y", ".", "txt">>>>, c |-> 2, m |-> MtimeOld]
FileBY == [p |-> W \o <<<<"b">>, <<"y", ".", "txt">>>>, c |-> 2, m |-> MtimeFeb]

\* two files of one content and one of another size; three and two files of two contents
\* of one size and one file of another size
DupeFilesystems ==
    {MkFs({FileX, FileAX, FileAY}), MkFs({FileX, FileAX, FileBX, FileY, FileBY, FileR})}

RECURSIVE SumSeq(_)
SumSeq(q) == IF q = <<>> THEN 0 ELSE Head(q) + SumSeq(Tail(q))

\* schemas.DupeGroup built from the dict g: a key the dict lacks takes the default of its field
DupeGroupOf(g) ==
    [hash |-> g.hash, size_bytes |-> g.size_bytes, count |-> g.count, keep |-> g.keep,
     duplicates |-> g.duplicates,
     wasted_bytes |-> IF "wasted_bytes" \in DOMAIN g THEN Opt(g.wasted_bytes) ELSE None,
     actions |-> IF "actions" \in DOMAIN g THEN g.actions ELSE <<>>]

\* the DupesResponse that POST /dupes builds from the groups of cmd_dupes
find_duplicates(groups) ==
    [groups |-> [k \in 1..Len(groups) |-> DupeGroupOf(groups[k])],
     total_groups |-> Len(groups),
     total_duplicates |-> SumSeq([k \in 1..Len(groups) |-> groups[k].count - 1]),
     total_wasted_bytes |->
        SumSeq([k \in 1..Len(groups) |->
                    IF "wasted_bytes" \in DOMAIN groups[k] THEN groups[k].wasted_bytes
                    ELSE groups[k].size_bytes * (groups[k].count - 1)])]

\* the loop "for i, f in enumerate(candidates)" of cmd_dupes_stream: the files are hashed
\* one after the other, and a file whose file_hash raises gets no entry in hashes
SequentialHashes(f, files, failed) ==
    LET ok == Keep(files, {p \in Range(files) : p \notin failed /\ IsFile(f, p)})
    IN  [j \in 1..Len(ok) |-> [k |-> ok[j], v |-> Opt(HashOf(f.files[ok[j]].c))]]

\* the loop "for h, files in by_hash.items()" of cmd_dupes_stream
StreamGroups(f, by_hash) ==
    LET dupes == Keep(by_hash, {e \in Range(by_hash) : Len(e.v) >= 2})
    IN  [j \in 1..Len(dupes) |->
            LET files == dupes[j].v
                size == SizeOf(f.files[files[1]].c)
            IN  [hash |-> dupes[j].k, size_bytes |-> size, count |-> Len(files),
                 keep |-> files[1], duplicates |-> Tail(files),
                 wasted_bytes |-> size * (Len(files) - 1)]]

\* the events of a fully consumed cmd_dupes_stream; the filesystem changes only during the
\* scan, where a file whose stat raises OSError is not counted
cmd_dupes_stream(f, c, env, failed) ==
    Bind(ScanAll(f, c.path, c.recursive, c.exclude, <<>>, env),
         LAMBDA scan :
    Bind(Keep(scan.acts, {p \in Range(scan.acts) : IsFile(scan.fs, p)}),
         LAMBDA files :
    Bind(DupeCandidates(scan.fs, files),
         LAMBDA candidates :
    Bind(StreamGroups(scan.fs, ByHash(SequentialHashes(scan.fs, candidates, failed))),
         LAMBDA groups :
        <<[type |-> "progress", phase |-> "scanning"],
          [type |-> "progress", phase |-> "scanning", total_files |-> Len(files)],
          [type |-> "progress", phase |-> "hashing", current |-> 0,
           total |-> Len(candidates)]>>
        \o [i \in 1..Len(candidates) |->
                [type |-> "progress", phase |-> "hashing", current |-> i,
                 total |-> Len(candidates), current_file |-> NameOf(candidates[i])]]
        \o <<[type |-> "complete", groups |-> groups, total_groups |-> Len(groups),
              total_duplicates |-> SumSeq([k \in 1..Len(groups) |-> groups[k].count - 1]),
              total_wasted_bytes |->
                  SumSeq([k \in 1..Len(groups) |-> groups[k].wasted_bytes])]>>))))

DupesStreamCalls ==
    {[cmd |-> "dupes_stream", path |-> W, recursive |-> r, exclude |-> <<>>,
      include |-> <<>>, apply |-> FALSE] : r \in BOOLEAN}

InitDupes ==
    /\ fs \in DupeFilesystems
    /\ unreadable \in {S \in SUBSET DOMAIN fs.files : Cardinality(S) <= MaxUnreadable}
    /\ history = <<>>
    /\ hasTrash \in BOOLEAN
    /\ scanRev \in BOOLEAN
    /\ prevFs = fs
    /\ prevHistory = history
    /\ last = [call |-> NoCall, completion |-> <<>>, err |-> FALSE, status |-> 200,
               actions |-> <<>>, groups |-> <<>>]
    /\ prevCmd = [cmd |-> "none", apply |-> FALSE, stored |-> FALSE]
    /\ nOps = 0
    /\ pool = NoPool
    /\ stream = NoStream
    /\ gone = {}
    /\ logger = NoLogger

\* POST /dupes, listing or deleting
DupesOnce ==
    /\ nOps < MaxDupeOps
    /\ \E c \in {d \in DupesCalls : d.action \in {"list", "delete"}} :
         \E completion \in Perms(Len(cmd_dupes_candidates(fs, c, Env))) :
            \E r \in {cmd_dupes(fs, history, c, Env, completion, unreadable)} :
                Step(r.fs, r.history, Returned(c, completion, r))

\* GET /dupes/stream, consumed to its end
DupesStream ==
    /\ nOps < MaxDupeOps
    /\ \E c \in DupesStreamCalls :
         /\ \E ev \in {cmd_dupes_stream(fs, c, Env, unreadable)} :
               stream' = [pc |-> "done", call |-> c, events |-> ev]
         /\ \E scan \in {ScanAll(fs, c.path, c.recursive, c.exclude, <<>>, Env)} :
               fs' = scan.fs
         /\ last' = [call |-> c, completion |-> <<>>, err |-> FALSE, status |-> 200,
                     actions |-> <<>>, groups |-> <<>>]
    /\ nOps' = nOps + 1
    /\ prevFs' = fs
    /\ prevHistory' = history
    /\ prevCmd' = CmdOf(last)
    /\ UNCHANGED <<history, hasTrash, scanRev, unreadable, pool, gone, logger>>

NextDupes == DupesOnce \/ DupesStream

SpecDupes == InitDupes /\ [][NextDupes]_vars

\* POST /dupes returned its groups
DupesRan == last.call.cmd = "dupes" /\ ~last.err
\* GET /dupes/stream was consumed
StreamRan == last.call.cmd = "dupes_stream" /\ stream.pc = "done"

\* the files the scan of the last call came upon, in scan order
Scanned ==
    safe_iter_files(prevFs, last.call.path, last.call.recursive, last.call.exclude, <<>>, Env)
\* the files the last call handed to the hasher
Hashed == DupeCandidates(prevFs, Scanned)
SizeIn(p) == SizeOf(prevFs.files[p].c)
HashIn(p) == HashOf(prevFs.files[p].c)
\* the files of a scan that can be hashed
Readable(scanned) == {p \in Range(scanned) : p \notin unreadable}
\* the hashes that at least two hashable files of a scan share
SharedHashes(scanned) ==
    {h \in {HashIn(p) : p \in Readable(scanned)} :
        Cardinality({p \in Readable(scanned) : HashIn(p) = h}) >= 2}
Members(g) == {g.keep} \cup Range(g.duplicates)
UniqueSize(scanned, p) == \A q \in Range(scanned) : q # p => SizeIn(q) # SizeIn(p)

\* C11: the groups of cmd_dupes are, one to one, the hashes shared by at least two hashable
\* scanned files; the members of a group are the hashable files of its hash, all of the
\* group's size; count = 1 + number of duplicates >= 2; keep is no duplicate; no file is in
\* two groups; a file of unique size is not handed to the hasher and is in no group
C11_DuplicateGroups ==
    DupesRan =>
        \E scanned \in {Scanned} : \E hashed \in {DupeCandidates(prevFs, scanned)} :
            /\ Len(last.groups) = Cardinality(SharedHashes(scanned))
            /\ {last.groups[k].hash : k \in 1..Len(last.groups)} = SharedHashes(scanned)
            /\ \A k \in 1..Len(last.groups) :
                  LET g == last.groups[k]
                  IN  /\ Members(g) = {p \in Readable(scanned) : HashIn(p) = g.hash}
                      /\ \A p \in Members(g) : SizeIn(p) = g.size_bytes
                      /\ g.count = 1 + Len(g.duplicates)
                      /\ g.count >= 2
                      /\ g.keep \notin Range(g.duplicates)
                      /\ Cardinality(Range(g.duplicates)) = Len(g.duplicates)
            /\ \A j, k \in 1..Len(last.groups) :
                  j # k => Members(last.groups[j]) \cap Members(last.groups[k]) = {}
            /\ Len(last.completion) = Len(hashed)
            /\ \A p \in Range(scanned) :
                  UniqueSize(scanned, p) =>
                      /\ p \notin Range(hashed)
                      /\ \A k \in 1..Len(last.groups) : p \notin Members(last.groups[k])

\* two groups, one file of a unique size, and one file that could not be hashed
C11_Witness ==
    /\ DupesRan
    /\ Len(last.groups) = 2
    /\ \E scanned \in {Scanned} :
          /\ unreadable \cap Range(scanned) # {}
          /\ \E p \in Range(scanned) : UniqueSize(scanned, p)

\* C12: in every group keep is the member the scan came upon first and duplicates are the
\* other members in scan order, whatever the order in which the hash tasks completed
C12_KeepIsFirstScanned ==
    DupesRan =>
        \E scanned \in {Scanned} :
            \A k \in 1..Len(last.groups) :
                <<last.groups[k].keep>> \o last.groups[k].duplicates
                    = Keep(scanned, Members(last.groups[k]))

\* the stream's half of C13: every group of the complete event carries
\* wasted_bytes = size_bytes * (count - 1) and total_wasted_bytes is their sum
StreamWastedBytes ==
    StreamRan =>
        LET done == stream.events[Len(stream.events)]
        IN  /\ done.type = "complete"
            /\ \A k \in 1..Len(done.groups) :
                  done.groups[k].wasted_bytes
                      = done.groups[k].size_bytes * (done.groups[k].count - 1)
            /\ done.total_wasted_bytes
                  = SumSeq([k \in 1..Len(done.groups) |-> done.groups[k].wasted_bytes])

\* C13: every group of the POST /dupes response and of the stream's complete event carries
\* wasted_bytes = size_bytes * (count - 1), and the stream's total is the sum over its groups
C13_WastedBytes ==
    /\ DupesRan =>
          LET resp == find_duplicates(last.groups)
          IN  \A k \in 1..Len(resp.groups) :
                 resp.groups[k].wasted_bytes
                    = Opt(resp.groups[k].size_bytes * (resp.groups[k].count - 1))
    /\ StreamWastedBytes

\* C14: the mapping of parallel_hash_files has one key per input file, the digest of a file
\* that could be read and None for one that could not, and the digests of the other files
\* are what they are when nothing fails; a file mapped to None is in no group, and every
\* hash that two other files share still has its group
C14_HashFailures ==
    DupesRan =>
        \E scanned \in {Scanned} : \E inputs \in {DupeCandidates(prevFs, scanned)} :
        \E items \in {parallel_hash_files(prevFs, inputs, last.completion, unreadable)} :
            /\ Len(items) = Len(inputs)
            /\ {items[j].k : j \in 1..Len(items)} = Range(inputs)
            /\ \A j \in 1..Len(items) :
                  items[j].v = IF items[j].k \in unreadable THEN None
                               ELSE Opt(HashIn(items[j].k))
            /\ \A p \in Range(inputs) \cap unreadable :
                  \A k \in 1..Len(last.groups) : p \notin Members(last.groups[k])
            /\ \A h \in SharedHashes(scanned) :
                  \E k \in 1..Len(last.groups) : last.groups[k].hash = h

\* one candidate could not be hashed and the others still form a group
C14_Witness ==
    /\ DupesRan
    /\ unreadable \cap Range(Hashed) # {}
    /\ last.groups # <<>>


(***************************************************************************)
(* parallel_hash_files as processes: the main thread, the executor's queue *)
(* and its worker threads                                                  *)
(***************************************************************************)
MaxWorkers == 2
MaxHashFiles == 3

\* a callback that reports the index of the future instead of the count of completions
ProgressCallIndex(i, total, f) == [completed |-> i, total |-> total, file |-> f]

\* progress_callback(i + 1, total, f)
ProgressCall(i, total, f) == [completed |-> i + 1, total |-> total, file |-> f]

\* the lists of files handed to parallel_hash_files: the first n files of a scan
HashInputs ==
    LET files == safe_iter_files(fs, W, TRUE, <<>>, <<>>, Env)
    IN  {SubSeq(files, 1, n) : n \in 0..(IF Len(files) < MaxHashFiles THEN Len(files)
                                         ELSE MaxHashFiles)}

InitHash ==
    /\ fs \in DupeFilesystems
    /\ unreadable \in {S \in SUBSET DOMAIN fs.files : Cardinality(S) <= MaxUnreadable}
    /\ history = <<>>
    /\ hasTrash = TRUE
    /\ scanRev \in BOOLEAN
    /\ prevFs = fs
    /\ prevHistory = history
    /\ last = [call |-> NoCall, completion |-> <<>>, err |-> FALSE, status |-> 200,
               actions |-> <<>>, groups |-> <<>>]
    /\ prevCmd = [cmd |-> "none", apply |-> FALSE, stored |-> FALSE]
    /\ nOps = 0
    /\ pool = NoPool
    /\ stream = NoStream
    /\ gone = {}
    /\ logger = NoLogger

HashUnchanged ==
    UNCHANGED <<fs, history, hasTrash, scanRev, prevFs, prevHistory, last, prevCmd, nOps,
                unreadable, stream, gone, logger>>

\* the call: with no file it returns the empty dict at once, otherwise every file is
\* submitted to the executor, in order
HashCall ==
    /\ pool.pc = "idle"
    /\ \E files \in HashInputs : \E workers \in 1..MaxWorkers : \E callback \in BOOLEAN :
          pool' = [pc |-> IF files = <<>> THEN "returned" ELSE "running",
                   files |-> files, workers |-> workers, callback |-> callback,
                   queue |-> [k \in 1..Len(files) |-> k], running |-> {}, done |-> {},
                   i |-> 0, results |-> <<>>, calls |-> <<>>]
    /\ HashUnchanged

\* an idle worker thread takes the next work item of the executor's queue
WorkerTake ==
    /\ pool.pc = "running"
    /\ pool.queue # <<>>
    /\ Cardinality(pool.running) < pool.workers
    /\ pool' = [pool EXCEPT !.queue = Tail(@), !.running = @ \cup {Head(pool.queue)}]
    /\ HashUnchanged

\* a worker thread ends file_hash: its future is finished, with a digest or an exception
WorkerDone ==
    /\ pool.pc = "running"
    /\ \E k \in pool.running :
          pool' = [pool EXCEPT !.running = @ \ {k}, !.done = @ \cup {k}]
    /\ HashUnchanged

\* one round of "for i, future in enumerate(as_completed(futures))" in the main thread:
\* a finished future is handed over, its result or None is stored, the callback is called
Collect ==
    /\ pool.pc = "running"
    /\ \E k \in pool.done :
          LET f == pool.files[k]
              v == IF f \in unreadable \/ ~IsFile(fs, f) THEN None
                   ELSE Opt(HashOf(fs.files[f].c))
          IN  pool' = [pool EXCEPT
                          !.done = @ \ {k},
                          !.results = Append(@, [k |-> f, v |-> v]),
                          !.calls = IF pool.callback
                                    THEN Append(@, ProgressCall(pool.i, Len(pool.files), f))
                                    ELSE @,
                          !.i = @ + 1]
    /\ HashUnchanged

\* as_completed is exhausted: the executor is shut down and results is returned
HashReturn ==
    /\ pool.pc = "running"
    /\ pool.i = Len(pool.files)
    /\ pool' = [pool EXCEPT !.pc = "returned"]
    /\ HashUnchanged

NextHash == HashCall \/ WorkerTake \/ WorkerDone \/ Collect \/ HashReturn

SpecHash == InitHash /\ [][NextHash]_vars

\* what the processes return is what the operator parallel_hash_files gives for the order
\* in which the futures were handed over
PoolIsOperator ==
    (pool.pc = "returned") =>
        \E completion \in Perms(Len(pool.files)) :
            pool.results = parallel_hash_files(fs, pool.files, completion, unreadable)

\* C15: with a callback, the j-th invocation has completed = j and total = n, no file is
\* reported twice, there is one invocation per stored result, and at the return there were
\* exactly n invocations that reported every input file; with no file the callback is not
\* invoked and the mapping is empty
C15_ProgressCallback ==
    (pool.pc # "idle" /\ pool.callback) =>
        LET n == Len(pool.files)
        IN  /\ \A j \in 1..Len(pool.calls) :
                  /\ pool.calls[j].completed = j
                  /\ pool.calls[j].total = n
                  /\ pool.calls[j].file \in Range(pool.files)
            /\ \A j, k \in 1..Len(pool.calls) :
                  j # k => pool.calls[j].file # pool.calls[k].file
            /\ Len(pool.calls) = Len(pool.results)
            /\ Len(pool.calls) <= n
            /\ (pool.pc = "returned") =>
                  /\ Len(pool.calls) = n
                  /\ {pool.calls[j].file : j \in 1..n} = Range(pool.files)
            /\ (n = 0) => pool.pc = "returned" /\ pool.calls = <<>> /\ pool.results = <<>>

\* three files hashed by two workers, the last submitted file reported first and a failed
\* file reported too
C15_Witness ==
    /\ pool.pc = "returned"
    /\ pool.callback
    /\ pool.workers = 2
    /\ Len(pool.files) = 3
    /\ pool.calls[1].file = pool.files[3]
    /\ \E j \in 1..3 : pool.calls[j].file \in unreadable

\* the call with no file has returned
C15_WitnessEmpty ==
    pool.pc = "returned" /\ pool.callback /\ pool.files = <<>>


(***************************************************************************)
(* GET /index/stream: cmd_index_stream as a generator that the router      *)
(* resumes once per event, other requests being served between two events  *)
(***************************************************************************)
EmptyDir == W \o <<<<"b">>>>

\* a directory with files at two levels and an empty directory
StreamFilesystems ==
    {[f EXCEPT !.dirs = @ \cup {EmptyDir}] : f \in {MkFs({FileX, FileAX, FileAY})}}

IndexStreamCalls ==
    {[cmd |-> "index_stream", path |-> W, include_hash |-> h, recursive |-> r,
      exclude |-> <<>>, include |-> <<>>, apply |-> FALSE] : h, r \in BOOLEAN}
    \cup {[cmd |-> "index_stream", path |-> EmptyDir, include_hash |-> FALSE,
           recursive |-> TRUE, exclude |-> <<>>, include |-> <<>>, apply |-> FALSE]}

\* an indexing event that reports the index of the file instead of its position
IndexingEventIndex(i, total, f) ==
    [type |-> "progress", current |-> i, total |-> total, phase |-> "indexing",
     current_file |-> NameOf(f)]

\* the event yielded for the file f of index i of enumerate(files)
IndexingEvent(i, total, f) ==
    [type |-> "progress", current |-> i + 1, total |-> total, phase |-> "indexing",
     current_file |-> NameOf(f)]

\* the row of a file: its stat and, if asked for, its hash or None
IndexRow(f, p, include_hash, failed) ==
    LET row == [path |-> p, name |-> NameOf(p), size_bytes |-> SizeOf(f.files[p].c),
                mtime_epoch |-> f.files[p].m]
    IN  IF include_hash
        THEN [path |-> row.path, name |-> row.name, size_bytes |-> row.size_bytes,
              mtime_epoch |-> row.mtime_epoch,
              hash |-> IF p \in failed THEN None ELSE Opt(HashOf(f.files[p].c))]
        ELSE row

Min(S) == CHOOSE x \in S : \A y \in S : x <= y

\* the first next() of the generator: the scan is drained into a list and the scanning
\* event is yielded; st.i counts the files the loop has gone past, st.skipped those of
\* them whose stat raised
IndexStreamFirst(f, c, env) ==
    LET files == safe_iter_files(f, c.path, c.recursive, c.exclude, <<>>, env)
    IN  [pc |-> "loop", call |-> c, files |-> files, i |-> 0, skipped |-> {},
         total_bytes |-> 0, results |-> <<>>,
         events |-> <<[type |-> "progress", current |-> 0, total |-> Len(files),
                       phase |-> "scanning"]>>]

\* a later next(): the loop goes on, past the files whose stat raises OSError, to the next
\* yield: the indexing event of a file, or the complete event after the last file
IndexStreamResume(f, st, failed) ==
    LET n == Len(st.files)
        there == {k \in (st.i + 1)..n : IsFile(f, st.files[k])}
    IN  IF there = {}
        THEN [st EXCEPT !.pc = "done", !.i = n, !.skipped = @ \cup ((st.i + 1)..n),
                        !.events = Append(@, [type |-> "complete",
                                              total_files |-> Len(st.results),
                                              total_bytes |-> st.total_bytes,
                                              files |-> st.results])]
        ELSE LET k == Min(there)
                 row == IndexRow(f, st.files[k], st.call.include_hash, failed)
             IN  [st EXCEPT !.i = k, !.skipped = @ \cup ((st.i + 1)..(k - 1)),
                            !.total_bytes = @ + row.size_bytes,
                            !.results = Append(@, row),
                            !.events = Append(@, IndexingEvent(k - 1, n, st.files[k]))]

InitStream ==
    /\ fs \in StreamFilesystems
    /\ unreadable \in {S \in SUBSET DOMAIN fs.files : Cardinality(S) <= MaxUnreadable}
    /\ history = <<>>
    /\ hasTrash \in BOOLEAN
    /\ scanRev \in BOOLEAN
    /\ prevFs = fs
    /\ prevHistory = history
    /\ last = [call |-> NoCall, completion |-> <<>>, err |-> FALSE, status |-> 200,
               actions |-> <<>>, groups |-> <<>>]
    /\ prevCmd = [cmd |-> "none", apply |-> FALSE, stored |-> FALSE]
    /\ nOps = 0
    /\ pool = NoPool
    /\ stream = NoStream
    /\ gone = {}
    /\ logger = NoLogger

StreamUnchanged ==
    UNCHANGED <<history, hasTrash, scanRev, prevFs, prevHistory, last, prevCmd, nOps,
                unreadable, pool, gone, logger>>

\* the request arrives: a path that does not exist gives one error event, otherwise the
\* generator is created and its first event is sent
IndexStreamOpen ==
    /\ stream.pc = "none"
    /\ \E c \in IndexStreamCalls :
          IF ~Exists(fs, c.path)
          THEN /\ stream' = [pc |-> "error", call |-> c, events |-> <<[type |-> "error"]>>]
               /\ fs' = fs
          ELSE /\ \E first \in {IndexStreamFirst(fs, c, Env)} : stream' = first
               /\ \E scan \in {ScanAll(fs, c.path, c.recursive, c.exclude, <<>>, Env)} :
                     fs' = scan.fs
    /\ StreamUnchanged

\* after "await asyncio.sleep(0)" the generator is resumed and its next event is sent
IndexStreamNext ==
    /\ stream.pc = "loop"
    /\ stream' = IndexStreamResume(fs, stream, unreadable)
    /\ fs' = fs
    /\ StreamUnchanged

NextStream == IndexStreamOpen \/ IndexStreamNext \/ Clean

SpecStream == InitStream /\ [][NextStream]_vars

\* the events of the stream so far begin as an index stream does: the scanning event with
\* current = 0 and total = N, then indexing events with total = N, each for the file at
\* position current of the scan, with current strictly increasing within 1..N
IndexEventsSoFar ==
    LET ev == stream.events
        n == Len(stream.files)
        last_indexing == IF stream.pc = "done" THEN Len(ev) - 1 ELSE Len(ev)
    IN  /\ ev[1] = [type |-> "progress", current |-> 0, total |-> n, phase |-> "scanning"]
        /\ \A j \in 2..last_indexing :
              /\ ev[j].type = "progress"
              /\ ev[j].phase = "indexing"
              /\ ev[j].total = n
              /\ ev[j].current \in 1..n
              /\ ev[j].current_file = NameOf(stream.files[ev[j].current])
              /\ j > 2 => ev[j].current > ev[j - 1].current
        /\ {ev[j].current : j \in 2..last_indexing} \cup stream.skipped = 1..stream.i
        /\ {ev[j].current : j \in 2..last_indexing} \cap stream.skipped = {}

\* C16, as stated: a consumed stream is the scanning event, one indexing event per scanned
\* file with current = 1..N, and the complete event
C16_OneEventPerScannedFile ==
    (stream.pc = "done") =>
        LET ev == stream.events
            n == Len(stream.files)
        IN  /\ Len(ev) = n + 2
            /\ ev[1] = [type |-> "progress", current |-> 0, total |-> n,
                        phase |-> "scanning"]
            /\ \A j \in 1..n :
                  /\ ev[j + 1].type = "progress" /\ ev[j + 1].phase = "indexing"
                  /\ ev[j + 1].current = j /\ ev[j + 1].total = n
            /\ ev[n + 2].type = "complete"
            /\ ev[n + 2].total_files = Len(ev[n + 2].files)
            /\ ev[n + 2].total_bytes
                  = SumSeq([k \in 1..Len(ev[n + 2].files) |-> ev[n + 2].files[k].size_bytes])

\* C16, amended: one indexing event per scanned file that is still there when the loop
\* reaches it, none for a file whose stat raises; current is the position of the file in
\* the scan, so it runs 1..N when no file was skipped; the complete event is last, its
\* total_files is the length of its files list and the number of indexing events, its
\* total_bytes the sum of their size_bytes; with no scanned file the stream is the
\* scanning event and the complete event with zeros
C16_IndexStreamEvents ==
    (stream.pc \in {"loop", "done"}) =>
        LET ev == stream.events
            n == Len(stream.files)
        IN  /\ IndexEventsSoFar
            /\ (stream.pc = "loop") => ev[Len(ev)].type = "progress"
            /\ (stream.pc = "done") =>
                  LET done == ev[Len(ev)]
                  IN  /\ done.type = "complete"
                      /\ stream.i = n
                      /\ done.total_files = Len(done.files)
                      /\ done.total_files = Len(ev) - 2
                      /\ done.total_bytes
                            = SumSeq([k \in 1..Len(done.files) |-> done.files[k].size_bytes])
                      /\ \A k \in 1..Len(done.files) :
                            done.files[k].path = stream.files[ev[k + 1].current]
                      /\ (stream.skipped = {}) =>
                            /\ Len(ev) = n + 2
                            /\ \A j \in 1..n : ev[j + 1].current = j
                      /\ (n = 0) =>
                            ev = <<[type |-> "progress", current |-> 0, total |-> 0,
                                    phase |-> "scanning"],
                                   [type |-> "complete", total_files |-> 0,
                                    total_bytes |-> 0, files |-> <<>>]>>

\* a consumed stream in which a scanned file was gone when the loop reached it and a later
\* file was indexed
C16_Witness ==
    /\ stream.pc = "done"
    /\ stream.skipped # {}
    /\ \E j \in 2..(Len(stream.events) - 1) :
          \E k \in stream.skipped : stream.events[j].current > k

\* a consumed stream on the empty directory
C16_WitnessEmpty ==
    stream.pc = "done" /\ stream.files = <<>> /\ stream.call.path = EmptyDir


(***************************************************************************)
(* The commands while another process removes files: a file of gone is     *)
(* removed between the moment the scan yields it and the moment the        *)
(* command looks at it.  cmd_index is modelled here too.                   *)
(***************************************************************************)
MaxGone == 1
MaxVanishOps == 1

\* hashes.get(f)
DictGet(d, key) ==
    IF \E j \in 1..Len(d) : d[j].k = key
    THEN d[CHOOSE j \in 1..Len(d) : d[j].k = key].v
    ELSE None

\* cmd_index: the scan is drained into a list, the files are hashed in parallel when
\* include_hash is set, and every file whose stat succeeds gets a row
cmd_index(f, c, env, completion, failed) ==
    Bind(ScanAll(f, c.path, c.recursive, c.exclude, <<>>, env),
         LAMBDA scan :
    Bind(IF c.include_hash
         THEN parallel_hash_files(scan.fs, scan.acts, completion, failed)
         ELSE <<>>,
         LAMBDA hashes :
    Bind(Keep(scan.acts, {p \in Range(scan.acts) : IsFile(scan.fs, p)}),
         LAMBDA there :
                [fs |-> scan.fs,
                 rows |-> [j \in 1..Len(there) |->
                              LET p == there[j]
                              IN  IF c.include_hash
                                  THEN [path |-> p, name |-> NameOf(p),
                                        size_bytes |-> SizeOf(scan.fs.files[p].c),
                                        mtime_epoch |-> scan.fs.files[p].m,
                                        hash |-> DictGet(hashes, p)]
                                  ELSE [path |-> p, name |-> NameOf(p),
                                        size_bytes |-> SizeOf(scan.fs.files[p].c),
                                        mtime_epoch |-> scan.fs.files[p].m]]])))

IndexCalls ==
    {[cmd |-> "index", path |-> W, include_hash |-> h, recursive |-> r,
      exclude |-> <<>>, include |-> <<>>, apply |-> FALSE] : h, r \in BOOLEAN}

\* the number of files cmd_index hands to parallel_hash_files
IndexHashed(f, c, env) ==
    IF c.include_hash
    THEN Len(safe_iter_files(f, c.path, c.recursive, c.exclude, <<>>, env))
    ELSE 0

InitVanish ==
    /\ fs \in InitialFilesystems
    /\ gone \in {S \in SUBSET DOMAIN fs.files : Cardinality(S) <= MaxGone}
    /\ unreadable = {}
    /\ history = <<>>
    /\ hasTrash \in BOOLEAN
    /\ scanRev \in BOOLEAN
    /\ prevFs = fs
    /\ prevHistory = history
    /\ last = [call |-> NoCall, completion |-> <<>>, err |-> FALSE, status |-> 200,
               actions |-> <<>>, groups |-> <<>>]
    /\ prevCmd = [cmd |-> "none", apply |-> FALSE, stored |-> FALSE]
    /\ nOps = 0
    /\ pool = NoPool
    /\ stream = NoStream
    /\ logger = NoLogger

OrganizeOnce ==
    /\ nOps < MaxVanishOps
    /\ \E c \in OrganizeCalls : \E r \in {cmd_organize(fs, history, c, Env)} :
            Step(r.fs, r.history, Returned(c, <<>>, r))

CleanOnce ==
    /\ nOps < MaxVanishOps
    /\ \E c \in CleanCalls : \E r \in {cmd_clean(fs, history, c, Env)} :
            Step(r.fs, r.history, Returned(c, <<>>, r))

\* POST /index
IndexOnce ==
    /\ nOps < MaxVanishOps
    /\ \E c \in IndexCalls :
         \E completion \in Perms(IndexHashed(fs, c, Env)) :
            \E r \in {cmd_index(fs, c, Env, completion, unreadable)} :
                Step(r.fs, history,
                     [call |-> c, completion |-> completion, err |-> FALSE, status |-> 200,
                      actions |-> <<>>, groups |-> <<>>, rows |-> r.rows])

NextVanish ==
    \/ OrganizeOnce \/ CleanOnce \/ IndexOnce \/ DupesOnce \/ DupesStream
    \/ IndexStreamOpen \/ IndexStreamNext

SpecVanish == InitVanish /\ [][NextVanish]_vars


\* the filesystem f without the files of S
Without(f, S) == [f EXCEPT !.files = [q \in DOMAIN f.files \ S |-> f.files[q]]]

\* the files that the other process removed during the last call: the scan yielded them
Vanished == {p \in gone \cap DOMAIN prevFs.files : InScope(p, last.call)}

\* the environment without the other process
Alone == [Env EXCEPT !.gone = {}]

\* the hashes shared by at least two files of the scan of the call c on the filesystem f
SharedIn(f, c) ==
    LET files == Range(safe_iter_files(f, c.path, c.recursive, c.exclude, <<>>, Alone))
    IN  {h \in {HashOf(f.files[p].c) : p \in files} :
            Cardinality({p \in files : HashOf(f.files[p].c) = h}) >= 2}

\* organize and clean: the call returns, with the Actions of the same call on the files
\* that are left
VanishedSkippedByMover ==
    (last.call.cmd \in {"organize", "clean"} /\ Vanished # {}) =>
        /\ ~last.err
        /\ \E r \in {RunCall(Without(prevFs, Vanished), prevHistory, last.call, Alone, <<>>)} :
              last.actions = r.actions

\* index and findDuplicates: the call returns, with a row for every file that is left and
\* with the groups of the files that are left
VanishedSkippedByReader ==
    /\ (last.call.cmd = "index" /\ Vanished # {}) =>
          /\ ~last.err
          /\ [k \in 1..Len(last.rows) |-> last.rows[k].path]
                = safe_iter_files(Without(prevFs, Vanished), last.call.path,
                                  last.call.recursive, last.call.exclude, <<>>, Alone)
    /\ (last.call.cmd = "dupes" /\ Vanished # {}) =>
          /\ ~last.err
          /\ {last.groups[k].hash : k \in 1..Len(last.groups)}
                = SharedIn(Without(prevFs, Vanished), last.call)
          /\ \A k \in 1..Len(last.groups) : Members(last.groups[k]) \cap Vanished = {}

\* the two streams: the stream ends with its complete event, which has a row for every
\* scanned file that was still there when the loop reached it, and the groups of the files
\* that are left
VanishedSkippedByStream ==
    /\ (stream.pc = "done" /\ stream.call.cmd = "index_stream") =>
          LET done == stream.events[Len(stream.events)]
          IN  /\ done.type = "complete"
              /\ {done.files[k].path : k \in 1..Len(done.files)}
                    = {stream.files[k] : k \in (1..Len(stream.files)) \ stream.skipped}
    /\ (stream.pc = "done" /\ stream.call.cmd = "dupes_stream" /\ Vanished # {}) =>
          LET done == stream.events[Len(stream.events)]
          IN  /\ done.type = "complete"
              /\ {done.groups[k].hash : k \in 1..Len(done.groups)}
                    = SharedIn(Without(prevFs, Vanished), stream.call)
              /\ \A k \in 1..Len(done.groups) : Members(done.groups[k]) \cap Vanished = {}

\* C21: a file that vanishes between its enumeration and its processing is skipped and
\* nothing else happens: organize, clean, index, findDuplicates and the two streams end
\* normally with the results for the other files
C21_VanishedFileSkipped ==
    VanishedSkippedByMover /\ VanishedSkippedByReader /\ VanishedSkippedByStream

\* every command but organize skips the file
VanishedSkippedButOrganize ==
    /\ (last.call.cmd # "organize") => VanishedSkippedByMover
    /\ VanishedSkippedByReader
    /\ VanishedSkippedByStream


(***************************************************************************)
(* The commands on a directory with a file that cannot be moved, renamed   *)
(* or deleted: the mutation of that file raises in the middle of the call  *)
(***************************************************************************)
MaxLocked == 1

InitFault ==
    /\ fs \in {[f EXCEPT !.locked = S] :
                  f \in InitialFilesystems \cup DupeFilesystems,
                  S \in {T \in SUBSET {FileX.p, FileAX.p, FileAY.p, FileBX.p, FileN.p} :
                            Cardinality(T) <= MaxLocked}}
    /\ fs.locked \subseteq DOMAIN fs.files
    /\ gone = {}
    /\ unreadable = {}
    /\ history = <<>>
    /\ hasTrash \in BOOLEAN
    /\ scanRev \in BOOLEAN
    /\ prevFs = fs
    /\ prevHistory = history
    /\ last = [call |-> NoCall, completion |-> <<>>, err |-> FALSE, status |-> 200,
               actions |-> <<>>, groups |-> <<>>]
    /\ prevCmd = [cmd |-> "none", apply |-> FALSE, stored |-> FALSE]
    /\ nOps = 0
    /\ pool = NoPool
    /\ stream = NoStream
    /\ logger = NoLogger

RenameOnce ==
    /\ nOps < MaxVanishOps
    /\ \E c \in RenameCalls : \E r \in {cmd_rename(fs, history, c, Env)} :
            Step(r.fs, r.history, Returned(c, <<>>, r))

NextFault == OrganizeOnce \/ RenameOnce \/ CleanOnce \/ DupesOnce

SpecFault == InitFault /\ [][NextFault]_vars

\* the filesystem after the mutation that the Action a records
Mutated(f, a) ==
    CASE a.op \in {"move", "rename"} -> FsMoveFile(FsMkdirs(f, Parent(a.dst)), a.src, a.dst)
      [] a.op \in {"trash", "delete"} -> FsRemoveFile(f, a.src)
      [] a.op = "rmdir" -> FsRmdir(f, a.src)
      [] OTHER -> f

RECURSIVE Replayed(_, _)
Replayed(f, acts) == IF acts = <<>> THEN f ELSE Replayed(Mutated(f, Head(acts)), Tail(acts))

\* an applied command raised
Failed == last.call.cmd \in Commands /\ last.call.apply /\ last.err

FailedAfterMutation(cmd) == Failed /\ fs.files # prevFs.files /\ last.call.cmd = cmd
C22_WitnessOrganize == FailedAfterMutation("organize")
C22_WitnessRename == FailedAfterMutation("rename")
C22_WitnessDupes == FailedAfterMutation("dupes")


(***************************************************************************)
(* key_logger.py: the KeyLogger object, its two calls and the callbacks of *)
(* the keyboard listener and clipboard threads                             *)
(***************************************************************************)
MaxLoggerOps == 4
MaxEvents == 2

\* the events a recording holds
EventTypes == {"KeyDown", "KeyUp", "ClipboardSet"}

AlreadyRecording == "Already recording"
NotRecording == "Not currently recording"
NeedsPynput == "pynput is required for keyboard recording"
NeedsPyperclip == "pyperclip is required for clipboard monitoring"

\* _recording and _events
Flags(k) == [recording |-> k.recording, events |-> k.events]

\* KeyLogger(): pynput and pyperclip say whether the two imports of the module succeeded.
\* op, raised, result, was and now describe the last call; trail lists the calls that
\* returned normally; inflight is the event of a callback that has passed its _recording
\* test and has not appended yet
KeyLogger(pynput, pyperclip) ==
    [pc |-> "idle", pynput |-> pynput, pyperclip |-> pyperclip,
     recording |-> FALSE, events |-> <<>>, listening |-> FALSE, inflight |-> <<>>,
     op |-> "none", raised |-> "", result |-> <<>>,
     was |-> [recording |-> FALSE, events |-> <<>>],
     now |-> [recording |-> FALSE, events |-> <<>>],
     trail |-> <<>>]

\* raise RuntimeError(msg)
RuntimeError(k, op, msg) ==
    [k EXCEPT !.op = op, !.raised = msg, !.result = <<>>, !.was = Flags(k), !.now = Flags(k)]

\* start_recording up to the start of the listener and of the clipboard thread
start_recording(k) ==
    IF k.recording THEN RuntimeError(k, "start", AlreadyRecording)
    ELSE IF ~k.pynput THEN RuntimeError(k, "start", NeedsPynput)
    ELSE IF ~k.pyperclip THEN RuntimeError(k, "start", NeedsPyperclip)
    ELSE [k EXCEPT !.op = "start", !.raised = "", !.result = <<>>, !.was = Flags(k),
                   !.events = <<>>, !.listening = TRUE, !.pc = "starting"]

\* the end of start_recording: self._recording = True
mark_recording(k) ==
    LET r == [k EXCEPT !.recording = TRUE, !.pc = "idle", !.trail = Append(@, "start")]
    IN  [r EXCEPT !.now = Flags(r)]

\* stop_recording: the listener and the clipboard thread are told to stop, not awaited
\* beyond a second, and a copy of the events is returned
stop_recording(k) ==
    IF ~k.recording THEN RuntimeError(k, "stop", NotRecording)
    ELSE LET r == [k EXCEPT !.op = "stop", !.raised = "", !.was = Flags(k),
                            !.listening = FALSE, !.recording = FALSE,
                            !.result = k.events, !.trail = Append(@, "stop")]
         IN  [r EXCEPT !.now = Flags(r)]

InitLogger ==
    /\ fs \in {MkFs({FileX})}
    /\ unreadable = {}
    /\ history = <<>>
    /\ hasTrash = TRUE
    /\ scanRev = FALSE
    /\ prevFs = fs
    /\ prevHistory = history
    /\ last = [call |-> NoCall, completion |-> <<>>, err |-> FALSE, status |-> 200,
               actions |-> <<>>, groups |-> <<>>]
    /\ prevCmd = [cmd |-> "none", apply |-> FALSE, stored |-> FALSE]
    /\ nOps = 0
    /\ pool = NoPool
    /\ stream = NoStream
    /\ gone = {}
    /\ logger \in {KeyLogger(a, b) : a \in BOOLEAN, b \in BOOLEAN}

LoggerUnchanged ==
    UNCHANGED <<fs, history, hasTrash, scanRev, prevFs, prevHistory, last, prevCmd,
                unreadable, pool, stream, gone>>

StartRecording ==
    /\ nOps < MaxLoggerOps
    /\ logger.pc = "idle"
    /\ logger' = start_recording(logger)
    /\ nOps' = nOps + 1
    /\ LoggerUnchanged

StartRecorded ==
    /\ logger.pc = "starting"
    /\ logger' = mark_recording(logger)
    /\ UNCHANGED nOps
    /\ LoggerUnchanged

StopRecording ==
    /\ nOps < MaxLoggerOps
    /\ logger.pc = "idle"
    /\ logger' = stop_recording(logger)
    /\ nOps' = nOps + 1
    /\ LoggerUnchanged

\* _on_key_press, _on_key_release and _check_clipboard_change up to their test of
\* _recording: the callback goes on when the flag is set
OnEvent ==
    /\ logger.pc # "none"
    /\ logger.listening
    /\ logger.recording
    /\ logger.inflight = <<>>
    /\ Len(logger.events) < MaxEvents
    /\ \E e \in EventTypes : logger' = [logger EXCEPT !.inflight = <<e>>]
    /\ UNCHANGED nOps
    /\ LoggerUnchanged

\* _add_event: the callback appends its event
AddEvent ==
    /\ logger.pc # "none"
    /\ logger.inflight # <<>>
    /\ logger' = [logger EXCEPT !.events = Append(@, logger.inflight[1]), !.inflight = <<>>]
    /\ UNCHANGED nOps
    /\ LoggerUnchanged

NextLogger == StartRecording \/ StartRecorded \/ StopRecording \/ OnEvent \/ AddEvent

SpecLogger == InitLogger /\ [][NextLogger]_vars


\* a call of the logger has returned or raised
LoggerCalled(op) == logger.pc = "idle" /\ logger.op = op

\* starts and stops take turns, a start first
Alternates(trail) ==
    \A i \in 1..Len(trail) : trail[i] = (IF i % 2 = 1 THEN "start" ELSE "stop")

\* what the two calls do when they raise, and what stop_recording returns
LoggerCallsButStart ==
    logger.pc # "none" =>
        /\ nOps = 0 => ~logger.recording /\ logger.events = <<>>
        /\ LoggerCalled("start") =>
              /\ logger.was.recording =>
                    logger.raised = AlreadyRecording /\ logger.now = logger.was
              /\ ~logger.was.recording /\ ~(logger.pynput /\ logger.pyperclip) =>
                    /\ logger.raised \in {NeedsPynput, NeedsPyperclip}
                    /\ ~logger.now.recording
              /\ logger.raised = "" => logger.now.recording
        /\ LoggerCalled("stop") =>
              /\ ~logger.was.recording => logger.raised = NotRecording /\ logger.now = logger.was
              /\ logger.raised = "" =>
                    /\ logger.was.recording
                    /\ ~logger.now.recording
                    /\ logger.result = logger.now.events
        /\ Alternates(logger.trail)

\* C24: a new KeyLogger is not recording and has no events; start_recording while
\* recording raises "Already recording" and changes neither the flag nor the events; with a
\* missing dependency it raises and the logger is not recording; stop_recording while not
\* recording raises; a start that succeeds leaves the logger recording with an empty event
\* list; a stop that succeeds leaves it not recording and returns the events; the starts
\* and stops that succeed take turns
C24_KeyLoggerStateMachine ==
    /\ LoggerCallsButStart
    /\ LoggerCalled("start") /\ logger.raised = "" => logger.now.events = <<>>

\* the event of a callback of the recording before is in the list of a new recording
C24_StaleEvent ==
    /\ LoggerCalled("start")
    /\ logger.raised = ""
    /\ logger.now.events # <<>>


(***************************************************************************)
(* safe_iter_files on its own: the scan of a directory that nothing        *)
(* changes, drained into a list                                            *)
(***************************************************************************)
MaxScanOps == 1

Missing == W \o <<<<"zz">>>>
ScanRoots == {W, W \o <<<<"a">>>>, EmptyDir, Missing, FileX.p, FileAY.p}

\* "*.txt", "*.TXT", "x.txt", "/w/a/*", "a", "*"
ScanPatterns ==
    {<<Star, ".", "txt">>, <<Star, ".", "TXT">>, <<"x", ".", "txt">>,
     <<Slash, "w", Slash, "a", Slash, Star>>, <<"a">>, <<Star>>}

PatternLists == {<<>>} \cup {<<x>> : x \in ScanPatterns}
                \cup {<<<<"x", ".", "txt">>, <<"a">>>>}

ScanCalls ==
    {[cmd |-> "scan", apply |-> FALSE, path |-> r, recursive |-> rec,
      exclude |-> ex, include |-> inc] :
        r \in ScanRoots, rec \in BOOLEAN, ex \in PatternLists, inc \in PatternLists}

InitScan ==
    /\ fs \in InitialFilesystems \cup StreamFilesystems
    /\ unreadable = {}
    /\ history = <<>>
    /\ hasTrash = TRUE
    /\ scanRev \in BOOLEAN
    /\ prevFs = fs
    /\ prevHistory = history
    /\ last = [call |-> NoCall, completion |-> <<>>, err |-> FALSE, status |-> 200,
               actions |-> <<>>, groups |-> <<>>]
    /\ prevCmd = [cmd |-> "none", apply |-> FALSE, stored |-> FALSE]
    /\ nOps = 0
    /\ pool = NoPool
    /\ stream = NoStream
    /\ gone = {}
    /\ logger = NoLogger

\* list(safe_iter_files(root, recursive, exclude, include)): last.actions is the list
ScanOnce ==
    /\ nOps < MaxScanOps
    /\ \E c \in ScanCalls :
         \E r \in {safe_iter_files(fs, c.path, c.recursive, c.exclude, c.include, Env)} :
            Step(fs, history,
                 [call |-> c, completion |-> <<>>, err |-> FALSE, status |-> 200,
                  actions |-> r, groups |-> <<>>])

NextScan == ScanOnce

SpecScan == InitScan /\ [][NextScan]_vars

Scanned1 == last.call.cmd = "scan"

\* p is below the directory d, directly below it when the scan is not recursive
Below(p, d, recursive) ==
    /\ Len(p) > Len(d)
    /\ SubSeq(p, 1, Len(d)) = d
    /\ recursive \/ Len(p) = Len(d) + 1

\* p matches one of the patterns, by its full path or by its name
MatchesOne(p, patterns) ==
    \E k \in 1..Len(patterns) :
        FnMatch(PathStr(p), patterns[k]) \/ FnMatch(NameOf(p), patterns[k])

\* C23: safe_iter_files yields exactly the regular files below root (its direct children
\* when recursive is false) that match no exclude pattern and, when there are include
\* patterns, match one of them, each once and never a directory; a root that does not
\* exist yields nothing; a root that is a file yields that file alone, whatever the patterns
C23_SafeIterFiles ==
    Scanned1 =>
        LET c == last.call
            yielded == last.actions
            wanted == {p \in DOMAIN fs.files :
                          /\ Below(p, c.path, c.recursive)
                          /\ ~MatchesOne(p, c.exclude)
                          /\ c.include # <<>> => MatchesOne(p, c.include)}
        IN  /\ \A i, j \in 1..Len(yielded) : yielded[i] = yielded[j] => i = j
            /\ \A i \in 1..Len(yielded) : yielded[i] \notin fs.dirs
            /\ ~Exists(fs, c.path) => yielded = <<>>
            /\ IsFile(fs, c.path) => yielded = <<c.path>>
            /\ IsDir(fs, c.path) => Range(yielded) = wanted

\* a scan of a directory where the exclude and the include patterns each drop a file
C23_Witness ==
    /\ Scanned1
    /\ IsDir(fs, last.call.path)
    /\ last.actions # <<>>
    /\ \E p \in DOMAIN fs.files :
          Below(p, last.call.path, last.call.recursive) /\ MatchesOne(p, last.call.exclude)
    /\ \E p \in DOMAIN fs.files :
          /\ Below(p, last.call.path, last.call.recursive)
          /\ ~MatchesOne(p, last.call.exclude)
          /\ last.call.include # <<>>
          /\ ~MatchesOne(p, last.call.include)

\* a root that is a file matching an exclude pattern and no include pattern is yielded
C23_WitnessFileRoot ==
    /\ Scanned1
    /\ IsFile(fs, last.call.path)
    /\ MatchesOne(last.call.path, last.call.exclude)
    /\ last.call.include # <<>>
    /\ ~MatchesOne(last.call.path, last.call.include)
    /\ last.actions = <<last.call.path>>

\* a root that does not exist; a scan that is not recursive and leaves out deeper files
C23_WitnessMissingRoot == Scanned1 /\ ~Exists(fs, last.call.path) /\ last.actions = <<>>
C23_WitnessDirectChildren ==
    /\ Scanned1
    /\ ~last.call.recursive
    /\ last.actions # <<>>
    /\ \E p \in DOMAIN fs.files :
          Below(p, last.call.path, TRUE) /\ ~Below(p, last.call.path, FALSE)


(***************************************************************************)
(* One invocation and the lazy scan that feeds it                          *)
(***************************************************************************)
\* the Actions of the last call on files: its moves and renames
FileActions == SelectSeq(last.actions, LAMBDA a : a.op \in {"move", "rename"})

\* the last call, an applied cmd, has handled every file at most once: no two of its
\* Actions have the same source or follow one file from one Action's dst to the next one's
\* src, and every source was there when the call began
ProcessedOnce(cmd) ==
    (last.call.cmd = cmd /\ last.call.apply /\ ~last.err) =>
        \E acts \in {FileActions} :
            /\ \A i, j \in 1..Len(acts) : acts[i].src = acts[j].src => i = j
            /\ \A i \in 1..Len(acts) : IsFile(prevFs, acts[i].src)
            /\ \A i, j \in 1..Len(acts) : acts[i].dst # acts[j].src

\* C25: an applied organize or rename handles every file at most once: each Action is on a
\* file that was below path when the call began, no file has two Actions, and a file the
\* call has just moved or renamed is not picked up by the running scan and moved again
C25_ProcessedOnce == ProcessedOnce("organize") /\ ProcessedOnce("rename")

\* an applied rename handles every file at most once
RenameProcessedOnce == ProcessedOnce("rename")


(***************************************************************************)
(* remove_empty at the end of an applied organize or clean                 *)
(***************************************************************************)
RemovedEmpty ==
    /\ last.call.cmd \in {"organize", "clean"}
    /\ last.call.apply
    /\ last.call.remove_empty
    /\ ~last.err

\* d lies strictly below the directory root
StrictlyBelow(d, root) == Len(d) > Len(root) /\ SubSeq(d, 1, Len(root)) = root

\* C26: after an applied organize or clean with remove_empty no empty directory is left
\* strictly below path, also none that was emptied by the removal of its subdirectories;
\* path is still there; every directory that is gone has exactly one rmdir Action, after
\* the rmdir Actions of the directories below it and after every move and delete Action;
\* and no directory that holds a file is removed
C26_RemoveEmpty ==
    RemovedEmpty =>
        \E acts \in {last.actions} :
        \E root \in {last.call.path} :
        LET rm == {i \in 1..Len(acts) : acts[i].op = "rmdir"}
        IN  /\ \A d \in fs.dirs : StrictlyBelow(d, root) => ChildNames(fs, d) # {}
            /\ IsDir(fs, root)
            /\ \A d \in prevFs.dirs \ fs.dirs : \E i \in rm : acts[i].src = d
            /\ \A i, j \in rm : acts[i].src = acts[j].src => i = j
            /\ \A i \in rm : /\ StrictlyBelow(acts[i].src, root)
                             /\ ~IsDir(fs, acts[i].src)
                             /\ \A p \in DOMAIN fs.files : ~StrictlyBelow(p, acts[i].src)
            /\ \A i, j \in rm : StrictlyBelow(acts[j].src, acts[i].src) => j < i
            /\ \A i \in rm : \A j \in 1..Len(acts) : j > i => j \in rm
            /\ Cardinality(DOMAIN fs.files) + Cardinality({i \in 1..Len(acts) :
                                                     acts[i].op \in {"trash", "delete"}})
                  = Cardinality(DOMAIN prevFs.files)

\* a directory and the parent that its removal emptied are both removed, after a move
C26_Witness ==
    /\ RemovedEmpty
    /\ \E i, j, k \in 1..Len(last.actions) :
          /\ k < j /\ j < i
          /\ last.actions[k].op = "move"
          /\ last.actions[i].op = "rmdir"
          /\ last.actions[j].op = "rmdir"
          /\ StrictlyBelow(last.actions[j].src, last.actions[i].src)
          /\ DOMAIN prevFs.files = {FileR.p, FileN.p}

\* the same at the end of a clean
C26_WitnessClean ==
    /\ RemovedEmpty
    /\ last.call.cmd = "clean"
    /\ \E i \in 1..Len(last.actions) : last.actions[i].op = "rmdir"


(***************************************************************************)
(* The streaming commands next to their plain counterparts, on a directory *)
(* that no call changes                                                    *)
(***************************************************************************)
\* POST /dupes with action = list
DupesListOnce ==
    /\ nOps < MaxDupeOps
    /\ \E c \in {d \in DupesCalls : d.action = "list"} :
         \E completion \in Perms(Len(cmd_dupes_candidates(fs, c, Env))) :
            \E r \in {cmd_dupes(fs, history, c, Env, completion, unreadable)} :
                Step(r.fs, r.history, Returned(c, completion, r))

NextEquiv == IndexOnce \/ DupesListOnce \/ DupesStream \/ IndexStreamOpen \/ IndexStreamNext

\* one pair and two pairs of files of one content, all of one size
EquivFilesystems == {MkFs({FileX, FileAX, FileAY}), MkFs({FileX, FileAX, FileY, FileBY})}

InitEquiv ==
    /\ fs \in EquivFilesystems
    /\ unreadable \in {S \in SUBSET DOMAIN fs.files : Cardinality(S) <= MaxUnreadable}
    /\ history = <<>>
    /\ hasTrash = TRUE
    /\ scanRev \in BOOLEAN
    /\ prevFs = fs
    /\ prevHistory = history
    /\ last = [call |-> NoCall, completion |-> <<>>, err |-> FALSE, status |-> 200,
               actions |-> <<>>, groups |-> <<>>]
    /\ prevCmd = [cmd |-> "none", apply |-> FALSE, stored |-> FALSE]
    /\ nOps = 0
    /\ pool = NoPool
    /\ stream = NoStream
    /\ gone = {}
    /\ logger = NoLogger

SpecEquiv == InitEquiv /\ [][NextEquiv]_vars

\* the complete event of a stream that has been consumed to its end
Complete == stream.events[Len(stream.events)]

\* the fields of a group that both variants of findDuplicates report
GroupCore(g) ==
    [hash |-> g.hash, size_bytes |-> g.size_bytes, count |-> g.count, keep |-> g.keep,
     duplicates |-> g.duplicates]

\* a group without the order of its files
GroupAsSet(g) ==
    [hash |-> g.hash, size_bytes |-> g.size_bytes, count |-> g.count,
     files |-> {g.keep} \cup Range(g.duplicates)]

\* the index call that a stream call stands for
IndexCallOf(c) == [c EXCEPT !.cmd = "index"]
\* the stream call that a findDuplicates call stands for
DupesStreamCallOf(c) ==
    [cmd |-> "dupes_stream", path |-> c.path, recursive |-> c.recursive,
     exclude |-> c.exclude, include |-> <<>>, apply |-> FALSE]

IndexStreamDone == stream.pc = "done" /\ stream.call.cmd = "index_stream"
DupesListed == last.call.cmd = "dupes" /\ last.call.action = "list" /\ ~last.err

\* the files of the complete event of indexStream are the rows of index, whatever the
\* order in which the hashes of index complete
IndexStreamAsIndex ==
    IndexStreamDone =>
        \E c \in {IndexCallOf(stream.call)} :
            \A completion \in Perms(IndexHashed(fs, c, Env)) :
                cmd_index(fs, c, Env, completion, unreadable).rows = Complete.files

\* the groups that findDuplicatesStream reports for the directory of the last call
StreamedGroups ==
    LET ev == cmd_dupes_stream(fs, DupesStreamCallOf(last.call), Env, unreadable)
    IN  ev[Len(ev)].groups

\* findDuplicates with action = list and findDuplicatesStream find the same groups, with
\* the same hash, size, count and member files
DupesStreamAsSets ==
    DupesListed =>
        \E streamed \in {StreamedGroups} :
            {GroupAsSet(last.groups[k]) : k \in 1..Len(last.groups)}
                = {GroupAsSet(streamed[k]) : k \in 1..Len(streamed)}

\* C27: each streaming command ends with the result of its plain counterpart on the same
\* unchanged directory: the files of indexStream's complete event are the rows of index, in
\* the same order and with the same hashes; the groups of findDuplicatesStream's complete
\* event are the groups of findDuplicates with action = list, with the same hash, size,
\* count, keep and order of duplicates
C27_StreamEquivalence ==
    /\ IndexStreamAsIndex
    /\ DupesListed =>
          \E streamed \in {StreamedGroups} :
              {GroupCore(last.groups[k]) : k \in 1..Len(last.groups)}
                  = {GroupCore(streamed[k]) : k \in 1..Len(streamed)}

\* the index stream ends as index does, and the two findDuplicates agree on the groups
\* without keep and order
StreamEquivalenceButOrder == IndexStreamAsIndex /\ DupesStreamAsSets

\* an index stream with hashes has ended with two rows or more, one with a failed hash
IndexStreamHashed ==
    /\ IndexStreamDone
    /\ stream.call.include_hash
    /\ Len(Complete.files) >= 2
    /\ \E k \in 1..Len(Complete.files) : Complete.files[k].hash = None


(***************************************************************************)
(* POST /undo on an empty log or with an index outside the log             *)
(***************************************************************************)
UndoOnEmptyLog == last.call.cmd = "undo" /\ prevHistory = <<>>

UndoOutOfRange ==
    /\ last.call.cmd = "undo"
    /\ prevHistory # <<>>
    /\ IsSet(last.call.batch_index)
    /\ Val(last.call.batch_index) \notin 0..(Len(prevHistory) - 1)

\* the request changed no file and no batch of the log
UndoTouchedNothing == fs = prevFs /\ history = prevHistory /\ last.actions = <<>>

\* C28: an undo request on an empty log is answered with status 404, and one with a
\* batch_index outside 0..len(history)-1 with status 400; in both cases no file is touched
\* and the log is unchanged
C28_UndoRejected ==
    /\ UndoOnEmptyLog => last.status = 404 /\ UndoTouchedNothing
    /\ UndoOutOfRange => last.status = 400 /\ UndoTouchedNothing

\* both requests are refused without side effects, with one status
UndoRejectedAs500 ==
    (UndoOnEmptyLog \/ UndoOutOfRange) => last.status = 500 /\ UndoTouchedNothing


(***************************************************************************)
(* What the action log holds                                               *)
(***************************************************************************)
\* the ops of the Actions that record a change of the filesystem
MutationOps == {"move", "rename", "trash", "delete", "rmdir"}

\* C29: every Action of every batch of the log records a mutation that was made: its op is
\* move, rename, trash, delete or rmdir, never the observed-only dupe of findDuplicates
\* with action = list or with action = archive and no archive directory, so that the undo
\* of a stored batch is not empty
C29_LogHoldsMutations ==
    \A b \in 1..Len(history) :
        /\ \A i \in 1..Len(history[b]) : history[b][i].op \in MutationOps
        /\ undo_actions(fs, history[b], FALSE).acts # <<>>

\* the log holds mutations and dupe Actions, and no empty batch
LogHoldsNoEmptyBatch ==
    \A b \in 1..Len(history) :
        /\ history[b] # <<>>
        /\ \A i \in 1..Len(history[b]) : history[b][i].op \in MutationOps \cup {"dupe"}

\* every batch with a dupe Action comes from an applied findDuplicates that removed nothing
DupeBatchesAreListings ==
    (Len(history) > Len(prevHistory)
        /\ \E i \in 1..Len(history[Len(history)]) : history[Len(history)][i].op = "dupe")
    => /\ last.call.cmd = "dupes"
       /\ last.call.apply
       /\ last.call.action = "list" \/ (last.call.action = "archive" /\ ~IsSet(last.call.archive_dir))
       /\ fs = prevFs


(***************************************************************************)
(* An applied findDuplicates that trashes, deletes or archives             *)
(***************************************************************************)
DupesRemoved ==
    /\ last.call.cmd = "dupes"
    /\ last.call.apply
    /\ ~last.err
    /\ \/ last.call.action \in {"trash", "delete"}
       \/ last.call.action = "archive" /\ IsSet(last.call.archive_dir)

\* the duplicates of all groups, group by group
AllDuplicates(groups) == Flatten([k \in 1..Len(groups) |-> groups[k].duplicates])

C30_WitnessTrash == DupesRemoved /\ last.groups # <<>> /\ last.call.action = "trash"
C30_WitnessArchive == DupesRemoved /\ last.groups # <<>> /\ last.call.action = "archive"

====
